---- MODULE Spec2Model ----
(***************************************************************************)
(* Telegram channel monitor: the supervisor (AutoRestartManager,           *)
(* GracefulShutdown), the run of ChannelMonitor under it, and the          *)
(* detection pipeline (_process_message / _handle_match over the Store).   *)
(***************************************************************************)
EXTENDS Integers, Sequences, FiniteSets, TLC

(***************************************************************************)
(* Bounds of the model.                                                     *)
(***************************************************************************)
\* invocations of the supervised operation by run_with_restart that the
\* history (invocations, runs) records; later ones run unrecorded
MaxInvocations == 6

\* cleanup actions registered with GracefulShutdown.add_cleanup
MaxCallbacks == 3

\* inbound messages delivered to the message handler (replays included)
MaxDeliver == 3

\* Most providers the list is recorded with
MaxProviders == 6

\* edits of the channels and keywords tables while the monitor runs
MaxEdits == 2

\* schedules added to the ScheduleManager
MaxSchedules == 2

\* patterns added to a SearchEngine that is used on its own
MaxPatterns == 2

\* calls that change the pattern list of such a SearchEngine
MaxCalls == 4

(***************************************************************************)
(* Parameters of AutoRestartManager.  The singleton is built with the       *)
(* defaults of __init__; the second triple is the one of the backoff        *)
(* scenario (maxAttempts=3, baseDelay=1, multiplier=2).                     *)
(***************************************************************************)
DefaultMaxRetries == 5
DefaultRetryDelay == 30
DefaultBackoffMultiplier == 2

RestartConfigs ==
    { [max_retries |-> DefaultMaxRetries, retry_delay |-> DefaultRetryDelay,
       backoff_multiplier |-> DefaultBackoffMultiplier],
      [max_retries |-> 3, retry_delay |-> 1, backoff_multiplier |-> 2] }

VARIABLES
    \* ---- AutoRestartManager
    max_retries, retry_delay, backoff_multiplier,
    _running, _current_retries,
    \* ---- GracefulShutdown
    _shutdown_event, _cleanup_callbacks,
    \* ---- Config
    config_valid,
    \* ---- ChannelMonitor, Database connection, platform client
    is_running, db_connected, client_created, is_connected,
    monitored_channels, patterns,
    \* ---- position of the main task, the exception pending in run()
    pc, run_raised, waited,
    \* ---- history of the supervisor
    invocations, runs, recording,
    \* ---- Store: tables channels, keywords, detected_messages
    channels, keywords, detected_messages, last_insert_rowid,
    \* ---- message handler tasks of the platform client
    handler,
    \* ---- history of the pipeline
    delivered, notifyCount, handledCount, concurrent, faulted,
    \* ---- GracefulShutdown.cleanup run on its own
    cleanup_pc, cleanup_i, cleanup_log, cleanup_raised,
    \* ---- Config: destinations of the notifications, and which of them
    \* ---- accept what is sent to them
    notify_config, delivery,
    \* ---- NotificationManager: providers, one notify call and its send tasks
    providers, notify_pc, sends, notify_raised,
    \* ---- reload_config in progress
    reload_pc, reload_old, observed, torn, edits, reloaded,
    \* ---- the last call of a function that is checked on its own
    probe,
    \* ---- more history of the pipeline
    sendAttempted, newDone, excepted,
    \* ---- ScheduleManager, its last job and its last is_within_schedule call
    schedules, _monitor_callback, _is_monitoring, last_job, within,
    \* ---- the last search of a SearchEngine that is used on its own, and the
    \* ---- calls that changed its pattern list
    searched, calls,
    \* ---- MonitorBot: the monitor it reloads, the outcome of its last /reload
    monitor_instance, reload_cmd,
    \* ---- ChannelMonitor.stop called by the cleanup action, and what the stop
    \* ---- calls have executed since the current run began
    cleanup_stop, teardown,
    \* ---- the detections whose handling ended between the insert and notify
    unnotified

params == << max_retries, retry_delay, backoff_multiplier, config_valid, notify_config,
            delivery >>

restartVars == << _running, _current_retries >>

monitorVars == << is_running, db_connected, client_created, is_connected >>

cfgVars == << monitored_channels, patterns >>

taskVars == << pc, run_raised, waited >>

histVars == << invocations, runs, recording >>

storeVars == << channels, keywords, detected_messages, last_insert_rowid >>

pipeVars == << handler, delivered, notifyCount, handledCount, concurrent, faulted >>

cleanupVars == << cleanup_pc, cleanup_i, cleanup_log, cleanup_raised >>

notifyVars == << notify_pc, sends, notify_raised >>

reloadVars == << reload_pc, reload_old, observed, torn, edits, reloaded >>

pipeHistVars == << sendAttempted, newDone, excepted >>

schedVars == << schedules, _monitor_callback, _is_monitoring, last_job, within >>

botVars == << monitor_instance, reload_cmd >>

stopVars == << cleanup_stop, teardown >>

soloVars == << schedVars, searched, calls, botVars, stopVars, unnotified >>

\* extVars without teardown
quietVars == << providers, notifyVars, reloadVars, probe, pipeHistVars, schedVars, searched,
               calls, botVars, cleanup_stop, unnotified >>

extVars == << providers, notifyVars, reloadVars, probe, pipeHistVars, soloVars >>

vars == << params, restartVars, _shutdown_event, _cleanup_callbacks, monitorVars,
           cfgVars, taskVars, histVars, storeVars, pipeVars, cleanupVars, extVars >>

RECURSIVE Pow(_, _)
Pow(b, e) == IF e = 0 THEN 1 ELSE b * Pow(b, e - 1)

\* delay = self.retry_delay * (self.backoff_multiplier ** (self._current_retries - 1))
Delay(retries) == retry_delay * Pow(backoff_multiplier, retries - 1)

\* the entry of runs for a run after which no sleep was taken
NoWait == -1

(***************************************************************************)
(* Text.  A string is a sequence of one-character strings.                  *)
(***************************************************************************)
\* str.lower() on the characters the model uses.  "Idot" is the capital I
\* with dot above (U+0130): its lower case is two characters, i and the
\* combining dot above "dot" (U+0307)
LowerChar(c) == IF c = "A" THEN <<"a">>
                ELSE IF c = "B" THEN <<"b">>
                ELSE IF c = "Idot" THEN <<"i", "dot">>
                ELSE <<c>>

RECURSIVE Lower(_)
Lower(s) == IF s = << >> THEN << >> ELSE LowerChar(Head(s)) \o Lower(Tail(s))

\* str.find: the lowest 0-based index at which sub occurs in s, -1 if none
Find(s, sub) ==
    LET hits == { i \in 0..(Len(s) - Len(sub)) :
                    SubSeq(s, i + 1, i + Len(sub)) = sub }
    IN IF hits = {} THEN -1 ELSE CHOOSE i \in hits : \A j \in hits : i <= j

\* s[a:b] of Python for 0 <= a
Slice(s, a, b) == SubSeq(s, a + 1, IF b > Len(s) THEN Len(s) ELSE b)

\* s[-n:] of Python: the last n characters, all of s for n = 0
Last(s, n) == IF n = 0 \/ n >= Len(s) THEN s ELSE SubSeq(s, Len(s) - n + 1, Len(s))

None == << >>

(***************************************************************************)
(* Store content at start-up and the inbound messages of the platform.      *)
(***************************************************************************)
InitChannels ==
    << [channel_id |-> "100", username |-> "foo", is_active |-> TRUE],
       [channel_id |-> "300", username |-> "", is_active |-> FALSE],
       [channel_id |-> "500", username |-> "@bar", is_active |-> FALSE],
       [channel_id |-> "@", username |-> "", is_active |-> FALSE] >>

InitKeywords ==
    << [keyword |-> <<"a">>, is_regex |-> FALSE, is_active |-> TRUE],
       [keyword |-> <<"b">>, is_regex |-> FALSE, is_active |-> TRUE] >>

Msg(id, chat, user, title, text, caption) ==
    [id |-> id, chat_id |-> chat, username |-> user, title |-> title,
     text |-> text, caption |-> caption]

\* one watched message per keyword set, one of an unwatched channel, one without
\* text, one that no keyword matches
MessagePool ==
    { Msg(1, "100", "foo", "Foo", <<"x", "A">>, << >>),
      Msg(2, "100", "foo", "Foo", << >>, <<"a", "b">>),
      Msg(1, "200", "bar", "Bar", <<"a">>, << >>),
      Msg(3, "100", "foo", "Foo", << >>, << >>),
      Msg(4, "100", "foo", "Foo", <<"x">>, << >>) }

\* a message of the watched channel at a time when it has no username
AnonymousMsg == Msg(5, "100", "", "Foo", <<"a">>, << >>)

NoMsg == Msg(0, "", "", "", << >>, << >>)

KeywordPool == { InitKeywords[i].keyword : i \in 1..Len(InitKeywords) }

\* the (message_id, channel_id, keyword_matched) triples of the model
Triples == { <<m.id, m.chat_id, k>> : m \in MessagePool \cup {AnonymousMsg}, k \in KeywordPool }

Handlers == {"h1", "h2"}

IdleHandler ==
    [pc |-> "idle", msg |-> NoMsg, text |-> << >>, matches |-> << >>, db_id |-> 0,
     inserted |-> FALSE]

(***************************************************************************)
(* SearchPattern, SearchEngine                                              *)
(***************************************************************************)
\* re.compile fails on an unbalanced parenthesis
Compiles(pattern) == \A i \in 1..Len(pattern) : pattern[i] # "("

\* SearchPattern(...) with __post_init__
SearchPattern(pattern, match_type, case_sensitive) ==
    [pattern |-> pattern, match_type |-> match_type, case_sensitive |-> case_sensitive,
     compiled_regex |-> match_type = "regex" /\ Compiles(pattern)]

add_pattern(pats, pattern, match_type, case_sensitive) ==
    Append(pats, SearchPattern(pattern, match_type, case_sensitive))

add_regex(pats, pattern) == add_pattern(pats, pattern, "regex", FALSE)

add_keyword(pats, keyword) == add_pattern(pats, keyword, "contains", FALSE)

\* a clear that leaves the list as it is
clear_patterns_Keep(pats) == pats

\* SearchEngine.clear_patterns
clear_patterns(pats) == << >>

NoResult(p) ==
    [matched |-> FALSE, pattern |-> p.pattern, match_type |-> p.match_type,
     matched_text |-> << >>, position |-> <<-1, -1>>]

\* compiled_regex.search(text) of a regex that is a literal: the lowest index
\* at which it occurs in text, letters compared without case under
\* re.IGNORECASE; -1 if none
RegexSearch(text, p) ==
    LET same(a, b) == IF p.case_sensitive THEN a = b ELSE LowerChar(a) = LowerChar(b)
        hits == { i \in 0..(Len(text) - Len(p.pattern)) :
                    \A k \in 1..Len(p.pattern) : same(text[i + k], p.pattern[k]) }
    IN IF hits = {} THEN -1 ELSE CHOOSE i \in hits : \A j \in hits : i <= j

\* a regex branch that uses the pattern whether or not it compiled
RegexUsable_Always(p) == TRUE

\* if pattern.compiled_regex:
RegexUsable(p) == p.compiled_regex

\* SearchEngine._match_pattern
_match_pattern(text, p) ==
    LET search_text == IF p.case_sensitive THEN text ELSE Lower(text)
        search_pattern == IF p.case_sensitive THEN p.pattern ELSE Lower(p.pattern)
        n == Len(p.pattern)
        idx == Find(search_text, search_pattern)
        at == RegexSearch(text, p)
        startswith == /\ Len(search_text) >= Len(search_pattern)
                      /\ SubSeq(search_text, 1, Len(search_pattern)) = search_pattern
        endswith == /\ Len(search_text) >= Len(search_pattern)
                    /\ Last(search_text, Len(search_pattern)) = search_pattern
        hit(matched_text, a, b) ==
            [matched |-> TRUE, pattern |-> p.pattern, match_type |-> p.match_type,
             matched_text |-> matched_text, position |-> <<a, b>>]
    IN CASE p.match_type = "regex" ->
                IF RegexUsable(p) /\ at # -1
                THEN hit(Slice(text, at, at + n), at, at + n) ELSE NoResult(p)
         [] p.match_type = "exact" ->
                IF search_text = search_pattern THEN hit(text, 0, Len(text)) ELSE NoResult(p)
         [] p.match_type = "contains" ->
                IF idx # -1 THEN hit(Slice(text, idx, idx + n), idx, idx + n) ELSE NoResult(p)
         [] p.match_type = "starts" ->
                IF startswith THEN hit(Slice(text, 0, n), 0, n) ELSE NoResult(p)
         [] p.match_type = "ends" ->
                IF endswith THEN hit(Last(text, n), Len(text) - n, Len(text)) ELSE NoResult(p)
         [] OTHER -> NoResult(p)

\* a scan that ends at the first pattern that matches
SearchFrom_First(text, pats, i) ==
    LET hits == { j \in i..Len(pats) : _match_pattern(text, pats[j]).matched }
    IN  IF hits = {} THEN << >>
        ELSE << _match_pattern(text, pats[CHOOSE j \in hits : \A k \in hits : j <= k]) >>

RECURSIVE SearchFrom(_, _, _)
\* the for loop of search from the i-th pattern on
SearchFrom(text, pats, i) ==
    IF i > Len(pats) THEN << >>
    ELSE LET result == _match_pattern(text, pats[i])
         IN IF result.matched
            THEN <<result>> \o SearchFrom(text, pats, i + 1)
            ELSE SearchFrom(text, pats, i + 1)

\* a search that scans the patterns for the empty text too
search_NoGuard(text, pats) == SearchFrom(text, pats, 1)

\* SearchEngine.search
search(text, pats) == IF text = << >> THEN << >> ELSE SearchFrom(text, pats, 1)

\* SearchEngine.search_first
search_first(text, pats) ==
    LET results == search(text, pats)
    IN  IF results # << >> THEN results[1] ELSE None

\* SearchEngine.has_match: bool(MatchResult) is its matched, bool(None) is False
has_match(text, pats) ==
    LET first == search_first(text, pats)
    IN  IF first = None THEN FALSE ELSE first.matched

(***************************************************************************)
(* ChannelMonitor: configuration loaded from the Store                      *)
(***************************************************************************)
RECURSIVE LoadedPatterns_All(_, _)
\* a load that adds the disabled keyword rows too
LoadedPatterns_All(rows, i) ==
    IF i = 0 THEN << >>
    ELSE IF rows[i].is_regex THEN add_regex(LoadedPatterns_All(rows, i - 1), rows[i].keyword)
    ELSE add_keyword(LoadedPatterns_All(rows, i - 1), rows[i].keyword)

RECURSIVE LoadedPatterns(_, _)
\* _load_keywords: clear_patterns, then one add per active keyword row
LoadedPatterns(rows, i) ==
    IF i = 0 THEN << >>
    ELSE LET pats == LoadedPatterns(rows, i - 1)
             kw == rows[i]
         IN IF ~kw.is_active THEN pats
            ELSE IF kw.is_regex THEN add_regex(pats, kw.keyword)
            ELSE add_keyword(pats, kw.keyword)

\* _load_channels: clear, then username (if any) and channel_id of each active row
LoadedChannels(rows) ==
    UNION { (IF rows[i].username # "" THEN {rows[i].username} ELSE {}) \cup {rows[i].channel_id}
            : i \in { j \in 1..Len(rows) : rows[j].is_active } }

\* the "@" variant is tried for an absent username too
_is_monitored_channel_NoGuard(channel_id, username) ==
    \/ channel_id \in monitored_channels
    \/ username \in monitored_channels
    \/ ("@" \o username) \in monitored_channels

\* a channel test that lets every chat through
_is_monitored_channel_Any(channel_id, username) == TRUE

\* ChannelMonitor._is_monitored_channel
_is_monitored_channel(channel_id, username) ==
    \/ channel_id \in monitored_channels
    \/ username # "" /\ username \in monitored_channels
    \/ username # "" /\ ("@" \o username) \in monitored_channels

(***************************************************************************)
(* Config (destinations) and the notification providers.                    *)
(* Strings whose content the code inspects are sequences of characters.     *)
(***************************************************************************)
NoClient == FALSE

\* Config: the environment variables read for the notifications
Environment(user_id, chat_id, webhook, server, username, password, to) ==
    [ NOTIFY_USER_ID |-> user_id, NOTIFY_CHAT_ID |-> chat_id,
      DISCORD_WEBHOOK_URL |-> webhook, EMAIL_SMTP_SERVER |-> server,
      EMAIL_USERNAME |-> username, EMAIL_PASSWORD |-> password, EMAIL_TO |-> to ]

\* Telegram and Discord set, the e-mail password missing
RunningConfig == Environment(7, <<"4", "2">>, "https://hook", "smtp.gmail.com", "u", "", "t")

NotifyConfigs ==
    { Environment(7, << >>, "", "smtp.gmail.com", "", "", ""),
      Environment(7, <<"@", "o">>, "https://hook", "smtp.gmail.com", "u", "p", "t"),
      RunningConfig,
      Environment(7, <<"0">>, "", "", "u", "p", "t"),
      Environment(0, << >>, "", "smtp.gmail.com", "u", "p", "") }

Digits == <<"0", "1", "2", "3", "4", "5", "6", "7", "8", "9">>

IsDigit(c) == \E d \in 1..10 : Digits[d] = c

DigitValue(c) == (CHOOSE d \in 1..10 : Digits[d] = c) - 1

RECURSIVE ToInt(_)
ToInt(s) == IF s = << >> THEN 0
            ELSE 10 * ToInt(SubSeq(s, 1, Len(s) - 1)) + DigitValue(s[Len(s)])

\* int(chat_id) succeeds on an optional sign followed by digits
IsInt(s) ==
    LET body == IF s # << >> /\ s[1] \in {"-", "+"} THEN Tail(s) ELSE s
    IN  body # << >> /\ \A i \in 1..Len(body) : IsDigit(body[i])

IntOf(s) == IF s[1] = "-" THEN 0 - ToInt(Tail(s))
            ELSE IF s[1] = "+" THEN ToInt(Tail(s)) ELSE ToInt(s)

IntId(n) == [kind |-> "int", n |-> n, s |-> << >>]

StrId(s) == [kind |-> "str", n |-> 0, s |-> s]

\* TelegramNotifier._parse_chat_id
_parse_chat_id(cfg) ==
    LET chat_id == cfg.NOTIFY_CHAT_ID
    IN  IF chat_id = << >> THEN IntId(cfg.NOTIFY_USER_ID)
        ELSE IF chat_id[1] = "@" THEN StrId(chat_id)
        ELSE IF IsInt(chat_id) THEN IntId(IntOf(chat_id))
        ELSE StrId(<<"@">> \o chat_id)

\* bool(x) of an int or a str
Truthy(id) == IF id.kind = "int" THEN id.n # 0 ELSE id.s # << >>

TelegramNotifier(cfg, client) ==
    [name |-> "telegram", client |-> client, chat_id |-> _parse_chat_id(cfg)]

DiscordNotifier(cfg) ==
    [name |-> "discord", webhook_url |-> cfg.DISCORD_WEBHOOK_URL]

EmailNotifier(cfg) ==
    [name |-> "email", smtp_server |-> cfg.EMAIL_SMTP_SERVER, username |-> cfg.EMAIL_USERNAME,
     password |-> cfg.EMAIL_PASSWORD, to_email |-> cfg.EMAIL_TO]

EmailConfigured_NoPassword(p) == p.smtp_server # "" /\ p.username # "" /\ p.to_email # ""

EmailConfigured(p) ==
    p.smtp_server # "" /\ p.username # "" /\ p.password # "" /\ p.to_email # ""

\* NotificationProvider.is_configured of the three providers
is_configured(p) ==
    IF p.name = "telegram" THEN Truthy(p.chat_id) /\ p.client # NoClient
    ELSE IF p.name = "discord" THEN p.webhook_url # ""
    ELSE EmailConfigured(p)

\* what a notify to n providers can meet: every send succeeds, some do, none does
Outcomes(n) == IF n = 0 THEN {"none"} ELSE IF n = 1 THEN {"all", "none"}
               ELSE {"all", "some", "none"}

\* NotificationManager.add_provider
add_provider(list, p) == IF is_configured(p) THEN Append(list, p) ELSE list

\* NotificationManager.setup_all
setup_all(list, cfg, telegram_client) ==
    LET withTelegram == IF telegram_client # NoClient
                        THEN add_provider(list, TelegramNotifier(cfg, telegram_client))
                        ELSE list
    IN  add_provider(add_provider(withTelegram, DiscordNotifier(cfg)), EmailNotifier(cfg))

(***************************************************************************)
(* MonitorBot                                                               *)
(***************************************************************************)
\* the default of the parameter monitor of setup_bot
NoMonitor == "None"

\* setup_bot(client, monitor): MonitorBot(client) starts with monitor_instance
\* None, set_monitor_instance is called only for a monitor that was passed
setup_bot(monitor) == IF monitor # NoMonitor THEN monitor ELSE NoMonitor

(***************************************************************************)
(* State after construction of the singletons and of ChannelMonitor.        *)
(***************************************************************************)
InitStore ==
    /\ channels = InitChannels
    /\ keywords = InitKeywords
    /\ detected_messages = {}
    /\ last_insert_rowid = 0

InitPipeline ==
    /\ handler = [h \in Handlers |-> IdleHandler]
    /\ delivered = 0
    /\ notifyCount = [t \in Triples |-> 0]
    /\ handledCount = [t \in Triples |-> 0]
    /\ concurrent = [t \in Triples |-> FALSE]
    /\ faulted = [t \in Triples |-> FALSE]

\* self._monitor_callback: Optional[Callable] = None
NoCallback == "None"

\* no call of is_within_schedule yet
NoCheck == [called |-> FALSE, schedules |-> << >>, today |-> 0, now |-> 0, result |-> FALSE]

\* no call of search yet
NoSearch == [called |-> FALSE, text |-> << >>, patterns |-> << >>, results |-> << >>,
             has_match |-> FALSE]

\* no call of _is_monitored_channel yet
NoProbe == [called |-> FALSE, channel_id |-> "", username |-> "", watched |-> {}, result |-> FALSE]

InitCleanup ==
    /\ cleanup_pc = "idle"
    /\ cleanup_i = 0
    /\ cleanup_log = << >>
    /\ cleanup_raised = FALSE

InitNotify ==
    /\ providers = << >>
    /\ notify_pc = "new"
    /\ sends = << >>
    /\ notify_raised = FALSE

\* no reload_config call yet: its outcome, the tables as it read them, the
\* number of Store edits at its end and the configuration before it
NoReload ==
    [result |-> "none", keywords |-> << >>, channels |-> << >>, edits |-> 0,
     before |-> << >>]

InitReload ==
    /\ reload_pc = "idle"
    /\ reloaded = NoReload
    /\ reload_old = << >>
    /\ observed = {}
    /\ torn = FALSE
    /\ edits = 0

InitPipeHistory ==
    /\ unnotified = [t \in Triples |-> 0]
    /\ sendAttempted = [t \in Triples |-> FALSE]
    /\ newDone = [t \in Triples |-> FALSE]
    /\ excepted = [t \in Triples |-> FALSE]

\* ScheduleManager.__init__
InitSchedule ==
    /\ schedules = << >>
    /\ _monitor_callback = NoCallback
    /\ _is_monitoring = FALSE
    /\ last_job = "none"
    /\ within = NoCheck

InitSolo ==
    /\ InitSchedule
    /\ searched = NoSearch
    /\ calls = << >>
    /\ reload_cmd = "none"

\* no platform stop and no Store close executed yet
NoTeardown == [client_stops |-> 0, db_closes |-> 0, unconnected |-> FALSE]

InitExt ==
    /\ cleanup_stop = "idle"
    /\ teardown = NoTeardown
    /\ InitNotify
    /\ InitReload
    /\ InitPipeHistory
    /\ probe = NoProbe
    /\ InitSolo
    /\ monitor_instance = NoMonitor

Init ==
    /\ \E c \in RestartConfigs :
          /\ max_retries = c.max_retries
          /\ retry_delay = c.retry_delay
          /\ backoff_multiplier = c.backoff_multiplier
    /\ config_valid \in BOOLEAN
    /\ notify_config \in { c \in NotifyConfigs : config_valid <=> c.NOTIFY_USER_ID # 0 }
    /\ delivery = "all"
    /\ _running = FALSE
    /\ _current_retries = 0
    /\ _shutdown_event = FALSE
    /\ _cleanup_callbacks = << >>
    /\ is_running = FALSE
    /\ db_connected = FALSE
    /\ client_created = FALSE
    /\ is_connected = FALSE
    /\ monitored_channels = {}
    /\ patterns = << >>
    /\ pc = "main"
    /\ run_raised = FALSE
    /\ waited = FALSE
    /\ invocations = 0
    /\ runs = << >>
    /\ recording = TRUE
    /\ InitStore
    /\ InitPipeline
    /\ InitCleanup
    /\ InitExt

(***************************************************************************)
(* main() and GracefulShutdown                                              *)
(***************************************************************************)
\* GracefulShutdown.add_cleanup
add_cleanup(callbacks, callback) == Append(callbacks, callback)

\* main(): setup_signals, add_cleanup(monitor.stop), run_with_restart(monitor.run)
\* up to the first test of the loop condition; nothing in it calls cleanup()
Main ==
    /\ pc = "main"
    /\ _cleanup_callbacks' = add_cleanup(_cleanup_callbacks, "monitor.stop")
    /\ _running' = TRUE
    /\ pc' = "loop"
    /\ UNCHANGED << params, extVars, _current_retries, _shutdown_event, monitorVars, cfgVars,
                    run_raised, waited, histVars, storeVars, pipeVars, cleanupVars >>

\* GracefulShutdown._signal_handler, installed by setup_signals
SignalHandler ==
    /\ pc \notin {"main", "returned"}
    /\ ~_shutdown_event
    /\ _shutdown_event' = TRUE
    /\ UNCHANGED << params, extVars, restartVars, _cleanup_callbacks, monitorVars, cfgVars,
                    taskVars, histVars, storeVars, pipeVars, cleanupVars >>

(***************************************************************************)
(* AutoRestartManager.run_with_restart                                      *)
(***************************************************************************)
\* self._current_retries = 0 inside the try, before the call of coroutine_func
RetriesAtInvocation_Kept == _current_retries

RetriesAtInvocation == 0

\* the while condition; when true, the try body up to the call of coroutine_func;
\* when false, self._running = False and run_with_restart returns
RunWithRestartLoop ==
    /\ pc = "loop"
    /\ IF _running /\ _current_retries < max_retries
       THEN /\ _current_retries' = RetriesAtInvocation
            /\ invocations' = IF invocations < MaxInvocations
                              THEN invocations + 1 ELSE invocations
            /\ recording' = (invocations < MaxInvocations)
            /\ run_raised' = FALSE
            /\ waited' = FALSE
            /\ pc' = "initialize"
            /\ _running' = _running
            /\ teardown' = NoTeardown
       ELSE /\ _running' = FALSE
            /\ pc' = "returned"
            /\ UNCHANGED << _current_retries, invocations, recording, run_raised, waited,
                            teardown >>
    /\ UNCHANGED << params, quietVars, _shutdown_event, _cleanup_callbacks, monitorVars,
                    cfgVars, runs, storeVars, pipeVars, cleanupVars >>

\* the history with the run that ends, if it is a recorded one
Record(run) == IF recording THEN Append(runs, run) ELSE runs

\* coroutine_func() returned without an exception: next iteration
RunReturned ==
    /\ pc = "run_exit"
    /\ ~run_raised
    /\ runs' = Record([outcome |-> "ok", attempt |-> _current_retries,
                        wait |-> NoWait, waited |-> waited])
    /\ pc' = "loop"
    /\ UNCHANGED << params, extVars, restartVars, _shutdown_event, _cleanup_callbacks, monitorVars,
                    cfgVars, run_raised, waited, invocations, recording, storeVars,
                    pipeVars, cleanupVars >>

\* except Exception: count the attempt, then sleep(delay) or break
RunFailed ==
    /\ pc = "run_exit"
    /\ run_raised
    /\ _current_retries' = _current_retries + 1
    /\ LET delay == Delay(_current_retries')
       IN IF _current_retries' < max_retries
          THEN /\ runs' = Record([outcome |-> "error", attempt |-> _current_retries',
                                   wait |-> delay, waited |-> waited])
               /\ pc' = "sleep"
               /\ _running' = _running
          ELSE /\ runs' = Record([outcome |-> "error", attempt |-> _current_retries',
                                   wait |-> NoWait, waited |-> waited])
               /\ pc' = "returned"
               /\ _running' = FALSE
    /\ UNCHANGED << params, extVars, _shutdown_event, _cleanup_callbacks, monitorVars, cfgVars,
                    run_raised, waited, invocations, recording, storeVars, pipeVars,
                    cleanupVars >>

\* asyncio.sleep(delay) is over
SleepDone ==
    /\ pc = "sleep"
    /\ pc' = "loop"
    /\ UNCHANGED << params, extVars, restartVars, _shutdown_event, _cleanup_callbacks, monitorVars,
                    cfgVars, run_raised, waited, histVars, storeVars, pipeVars,
                    cleanupVars >>

(***************************************************************************)
(* ChannelMonitor.run: initialize, start, finally stop.  An await either    *)
(* completes or raises; a raise goes to the finally block with run_raised.  *)
(***************************************************************************)
Raise ==
    /\ run_raised' = TRUE
    /\ pc' = "stop"

\* initialize: Config.validate
Initialize ==
    /\ pc = "initialize"
    /\ IF config_valid
       THEN /\ pc' = "db_connect"
            /\ run_raised' = run_raised
       ELSE Raise
    /\ UNCHANGED << params, extVars, restartVars, _shutdown_event, _cleanup_callbacks, monitorVars,
                    cfgVars, waited, histVars, storeVars, pipeVars, cleanupVars >>

\* initialize: await db.connect(); a new connection has no last insert rowid
DbConnect ==
    /\ pc = "db_connect"
    /\ \/ /\ db_connected' = TRUE
          /\ last_insert_rowid' = 0
          /\ pc' = "load_keywords"
          /\ run_raised' = run_raised
       \/ /\ db_connected' \in {db_connected, TRUE}
          /\ last_insert_rowid' = IF db_connected' = db_connected THEN last_insert_rowid ELSE 0
          /\ Raise
    /\ UNCHANGED << params, extVars, restartVars, _shutdown_event, _cleanup_callbacks, is_running,
                    client_created, is_connected, cfgVars, waited, histVars, channels,
                    keywords, detected_messages, pipeVars, cleanupVars >>

\* initialize: await self._load_keywords()
LoadKeywords ==
    /\ pc = "load_keywords"
    /\ \/ /\ patterns' = LoadedPatterns(keywords, Len(keywords))
          /\ pc' = "load_channels"
          /\ run_raised' = run_raised
       \/ /\ patterns' = patterns
          /\ Raise
    /\ UNCHANGED << params, extVars, restartVars, _shutdown_event, _cleanup_callbacks, monitorVars,
                    monitored_channels, waited, histVars, storeVars, pipeVars, cleanupVars >>

\* initialize: await self._load_channels()
LoadChannels ==
    /\ pc = "load_channels"
    /\ \/ /\ monitored_channels' = LoadedChannels(channels)
          /\ pc' = "client_setup"
          /\ run_raised' = run_raised
       \/ /\ monitored_channels' = monitored_channels
          /\ Raise
    /\ UNCHANGED << params, extVars, restartVars, _shutdown_event, _cleanup_callbacks, monitorVars,
                    patterns, waited, histVars, storeVars, pipeVars, cleanupVars >>

\* The provider list of the singleton grows at every initialize; the model
\* stops recording the growth at MaxProviders.
Registered(list) == IF Len(list) <= MaxProviders THEN list ELSE providers

\* initialize: Client(...), _setup_handlers, setup_all, setup_bot
ClientSetup ==
    /\ pc = "client_setup"
    /\ client_created' = TRUE
    /\ is_connected' = FALSE
    /\ providers' = Registered(setup_all(providers, notify_config, TRUE))
    /\ monitor_instance' = setup_bot(NoMonitor)
    /\ pc' = "start"
    /\ UNCHANGED << params, schedVars, searched, calls, reload_cmd, stopVars, unnotified, notifyVars, reloadVars, probe, pipeHistVars, restartVars, _shutdown_event, _cleanup_callbacks, is_running,
                    db_connected, cfgVars, run_raised, waited, histVars, storeVars,
                    pipeVars, cleanupVars >>

\* start: the is_running test, then up to await self.client.start()
Start ==
    /\ pc = "start"
    /\ IF is_running
       THEN /\ pc' = "stop"
            /\ is_running' = is_running
       ELSE /\ pc' = "client_start"
            /\ is_running' = TRUE
    /\ UNCHANGED << params, extVars, restartVars, _shutdown_event, _cleanup_callbacks, db_connected,
                    client_created, is_connected, cfgVars, run_raised, waited, histVars,
                    storeVars, pipeVars, cleanupVars >>

\* start: await self.client.start(); a failure may come after the connect
ClientStart ==
    /\ pc = "client_start"
    /\ \/ /\ is_connected' = TRUE
          /\ pc' = "get_me"
          /\ run_raised' = run_raised
       \/ /\ is_connected' \in BOOLEAN
          /\ Raise
    /\ UNCHANGED << params, extVars, restartVars, _shutdown_event, _cleanup_callbacks, is_running,
                    db_connected, client_created, cfgVars, waited, histVars, storeVars,
                    pipeVars, cleanupVars >>

\* start: await self.client.get_me()
GetMe ==
    /\ pc = "get_me"
    /\ \/ /\ pc' = "wait_for_shutdown"
          /\ run_raised' = run_raised
       \/ Raise
    /\ UNCHANGED << params, extVars, restartVars, _shutdown_event, _cleanup_callbacks, monitorVars,
                    cfgVars, waited, histVars, storeVars, pipeVars, cleanupVars >>

\* start: await graceful_shutdown.wait_for_shutdown() returns once the event is set
WaitForShutdown ==
    /\ pc = "wait_for_shutdown"
    /\ _shutdown_event
    /\ waited' = TRUE
    /\ pc' = "stop"
    /\ UNCHANGED << params, extVars, restartVars, _shutdown_event, _cleanup_callbacks, monitorVars,
                    cfgVars, run_raised, histVars, storeVars, pipeVars, cleanupVars >>

(***************************************************************************)
(* ChannelMonitor.stop, called by the finally block of run                  *)
(***************************************************************************)
\* a stop that does not look at is_running
Stop_NoGate ==
    /\ pc = "stop"
    /\ pc' = "stop_client"
    /\ is_running' = FALSE
    /\ UNCHANGED << params, extVars, restartVars, _shutdown_event, _cleanup_callbacks, db_connected,
                    client_created, is_connected, cfgVars, run_raised, waited, histVars,
                    storeVars, pipeVars, cleanupVars >>

Stop ==
    /\ pc = "stop"
    /\ IF ~is_running
       THEN /\ pc' = "run_exit"
            /\ is_running' = is_running
       ELSE /\ pc' = "stop_client"
            /\ is_running' = FALSE
    /\ UNCHANGED << params, extVars, restartVars, _shutdown_event, _cleanup_callbacks, db_connected,
                    client_created, is_connected, cfgVars, run_raised, waited, histVars,
                    storeVars, pipeVars, cleanupVars >>

\* the handler tasks of the client have finished their message
HandlersIdle == \A h \in Handlers : handler[h].pc = "idle"

\* if self.client and self.client.is_connected: await self.client.stop()
ClientStop ==
    IF client_created /\ is_connected
    THEN /\ \/ /\ HandlersIdle
               /\ is_connected' = FALSE
            \/ is_connected' \in BOOLEAN
         /\ teardown' = [teardown EXCEPT !.client_stops = @ + 1,
                                         !.unconnected = @ \/ ~is_connected]
    ELSE UNCHANGED << is_connected, teardown >>

\* await db.disconnect(): closes the connection that db holds, if any
DbDisconnect ==
    /\ IF db_connected
       THEN db_connected' \in BOOLEAN
       ELSE db_connected' = db_connected
    /\ teardown' = [teardown EXCEPT !.db_closes = @ + 1]

\* stop: client.stop() if connected.  It returns when the dispatcher has
\* awaited its handler tasks and the client has disconnected; its exception,
\* raised before or after that, is caught and logged
StopClient ==
    /\ pc = "stop_client"
    /\ ClientStop
    /\ pc' = "stop_db"
    /\ UNCHANGED << params, quietVars, restartVars, _shutdown_event, _cleanup_callbacks, is_running,
                    db_connected, client_created, cfgVars, run_raised, waited, histVars,
                    storeVars, pipeVars, cleanupVars >>

\* db.disconnect() whose exception leaves stop() and the finally block of run
StopDb_Uncaught ==
    /\ pc = "stop_db"
    /\ db_connected
    /\ db_connected' = db_connected
    /\ teardown' = [teardown EXCEPT !.db_closes = @ + 1]
    /\ run_raised' = TRUE
    /\ pc' = "run_exit"
    /\ UNCHANGED << params, quietVars, restartVars, _shutdown_event, _cleanup_callbacks, is_running,
                    client_created, is_connected, cfgVars, waited, histVars,
                    storeVars, pipeVars, cleanupVars >>

\* stop: db.disconnect(); its exception is caught and logged
StopDb ==
    /\ pc = "stop_db"
    /\ DbDisconnect
    /\ pc' = "run_exit"
    /\ UNCHANGED << params, quietVars, restartVars, _shutdown_event, _cleanup_callbacks, is_running,
                    client_created, is_connected, cfgVars, run_raised, waited, histVars,
                    storeVars, pipeVars, cleanupVars >>

(***************************************************************************)
(* Database: table detected_messages                                        *)
(***************************************************************************)
\* message_text=text[:2000]
MaxMessageText == 2000

TripleOf(row) == <<row.message_id, row.channel_id, row.keyword_matched>>

\* a dedup query that finds no row
is_message_detected_Never(message_id, channel_id, keyword) == FALSE

\* Database.is_message_detected
is_message_detected(message_id, channel_id, keyword) ==
    \E row \in detected_messages : TripleOf(row) = <<message_id, channel_id, keyword>>

\* the row that INSERT OR IGNORE would add; id is the AUTOINCREMENT key
NewRow(message_id, channel_id, channel_username, keyword_matched, message_text, message_link) ==
    [id |-> Cardinality(detected_messages) + 1,
     message_id |-> message_id, channel_id |-> channel_id,
     channel_username |-> channel_username, keyword_matched |-> keyword_matched,
     message_text |-> message_text, message_link |-> message_link,
     notification_sent |-> FALSE]

\* UNIQUE(message_id, channel_id, keyword_matched): the conflict that makes
\* INSERT OR IGNORE skip the row
InsertIgnored_NoConstraint(row) == FALSE

InsertIgnored(row) == \E old \in detected_messages : TripleOf(old) = TripleOf(row)

\* Database.mark_notification_sent
mark_notification_sent(rows, id) ==
    { IF row.id = id THEN [row EXCEPT !.notification_sent = TRUE] ELSE row : row \in rows }

(***************************************************************************)
(* ChannelMonitor._process_message and _handle_match, one task per handler  *)
(***************************************************************************)
HandlingTriple(h) ==
    <<handler[h].msg.id, handler[h].msg.chat_id, Head(handler[h].matches)>>

InHandleMatch(h) == handler[h].pc \in {"dedup", "insert", "notify", "mark"}

\* another handler task is inside _handle_match for the triple t
OtherHandling(h, t) ==
    \E g \in Handlers \ {h} : InHandleMatch(g) /\ HandlingTriple(g) = t

\* message.chat.username or message.chat.title or ""
ChannelUsername(m) == IF m.username # "" THEN m.username ELSE m.title

\* f"https://t.me/{channel_username}/{message_id}" if channel_username else None
MessageLink(m) ==
    IF ChannelUsername(m) # "" THEN <<"https://t.me/", ChannelUsername(m), "/", m.id>> ELSE None

\* _process_message up to the first await: channel test, text, search
ProcessMessage(h, m) ==
    /\ is_connected
    /\ handler[h].pc = "idle"
    /\ delivered < MaxDeliver
    /\ delivered' = delivered + 1
    /\ LET text == IF m.text # << >> THEN m.text ELSE m.caption
           matches == search(text, patterns)
           found == [i \in 1..Len(matches) |-> matches[i].pattern]
       IN IF ~_is_monitored_channel(m.chat_id, m.username) \/ text = << >> \/ matches = << >>
          THEN UNCHANGED << handler, concurrent >>
          ELSE /\ handler' = [handler EXCEPT ![h] =
                                [pc |-> "dedup", msg |-> m, text |-> text,
                                 matches |-> found, db_id |-> 0, inserted |-> FALSE]]
               /\ concurrent' =
                     [concurrent EXCEPT ![<<m.id, m.chat_id, found[1]>>] =
                                            @ \/ OtherHandling(h, <<m.id, m.chat_id, found[1]>>)]
    /\ observed' = IF reload_pc # "idle"
                   THEN observed \cup {<<patterns, monitored_channels>>}
                   ELSE observed
    /\ UNCHANGED << params, soloVars, providers, notifyVars, reload_pc, reload_old, torn, edits, reloaded, probe,
                    pipeHistVars, restartVars, _shutdown_event, _cleanup_callbacks, monitorVars,
                    cfgVars, taskVars, histVars, storeVars, notifyCount, handledCount,
                    faulted, cleanupVars >>

\* _handle_match returned: the for loop of _process_message goes to the next match
NextMatch(h, counted) ==
    LET rest == Tail(handler[h].matches)
        t == HandlingTriple(h)
        next == <<handler[h].msg.id, handler[h].msg.chat_id, Head(rest)>>
    IN /\ handledCount' = IF counted THEN [handledCount EXCEPT ![t] = @ + 1] ELSE handledCount
       /\ IF rest = << >>
          THEN /\ handler' = [handler EXCEPT ![h] = IdleHandler]
               /\ concurrent' = concurrent
          ELSE /\ handler' = [handler EXCEPT ![h] =
                                [@ EXCEPT !.pc = "dedup", !.matches = rest, !.db_id = 0,
                                          !.inserted = FALSE]]
               /\ concurrent' = [concurrent EXCEPT ![next] = @ \/ OtherHandling(h, next)]

\* _handle_match: if await db.is_message_detected(...): return
DedupCheck(h) ==
    /\ handler[h].pc = "dedup"
    /\ db_connected
    /\ LET t == HandlingTriple(h)
       IN IF is_message_detected(t[1], t[2], t[3])
          THEN NextMatch(h, TRUE)
          ELSE /\ handler' = [handler EXCEPT ![h].pc = "insert"]
               /\ UNCHANGED << handledCount, concurrent >>
    /\ UNCHANGED << params, extVars, restartVars, _shutdown_event, _cleanup_callbacks, monitorVars,
                    cfgVars, taskVars, histVars, storeVars, delivered, notifyCount,
                    faulted, cleanupVars >>

\* _handle_match: db_id = await db.add_detected_message(...).  The insert adds
\* the row, or is ignored on the unique triple and cursor.lastrowid is the
\* connection's last insert rowid, or raises and 0 is returned.
AddDetectedMessage(h) ==
    /\ handler[h].pc = "insert"
    /\ LET m == handler[h].msg
           t == HandlingTriple(h)
           row == NewRow(m.id, m.chat_id, ChannelUsername(m), t[3],
                         Slice(handler[h].text, 0, MaxMessageText), MessageLink(m))
       IN \/ /\ db_connected
             /\ IF InsertIgnored(row)
                THEN /\ UNCHANGED << detected_messages, last_insert_rowid >>
                     /\ handler' = [handler EXCEPT ![h] =
                                      [@ EXCEPT !.pc = "notify", !.db_id = last_insert_rowid]]
                ELSE /\ detected_messages' = detected_messages \cup {row}
                     /\ last_insert_rowid' = row.id
                     /\ handler' = [handler EXCEPT ![h] =
                                      [@ EXCEPT !.pc = "notify", !.db_id = row.id,
                                                !.inserted = TRUE]]
             /\ faulted' = faulted
          \/ /\ UNCHANGED << detected_messages, last_insert_rowid >>
             /\ handler' = [handler EXCEPT ![h] = [@ EXCEPT !.pc = "notify", !.db_id = 0]]
             /\ faulted' = [faulted EXCEPT ![t] = TRUE]
    /\ UNCHANGED << params, soloVars, providers, notifyVars, reloadVars, probe, sendAttempted, newDone,
                    excepted, restartVars, _shutdown_event, _cleanup_callbacks, monitorVars,
                    cfgVars, taskVars, histVars, channels, keywords, delivered, notifyCount,
                    handledCount, concurrent, cleanupVars >>

\* _handle_match returned: the detection it inserted itself is recorded
Done(h) ==
    newDone' = [newDone EXCEPT ![HandlingTriple(h)] = @ \/ handler[h].inserted]

MarkNeeded_IfDelivered(db_id, outcome) == db_id # 0 /\ outcome # "none"

\* _handle_match: if db_id:
MarkNeeded(db_id, outcome) == db_id # 0

\* _handle_match: await notification_manager.notify_keyword_found(...), which
\* sends to every provider and returns (NotifyStart .. GatherDone) with the
\* sends succeeding as delivery tells, then the test of db_id
Notify(h) ==
    /\ handler[h].pc = "notify"
    /\ notifyCount' = [notifyCount EXCEPT ![HandlingTriple(h)] = @ + 1]
    /\ sendAttempted' = [sendAttempted EXCEPT ![HandlingTriple(h)] = @ \/ providers # << >>]
    /\ IF MarkNeeded(handler[h].db_id, delivery)
       THEN /\ handler' = [handler EXCEPT ![h].pc = "mark"]
            /\ UNCHANGED << handledCount, concurrent, newDone >>
       ELSE /\ NextMatch(h, TRUE)
            /\ Done(h)
    /\ UNCHANGED << params, soloVars, providers, notifyVars, reloadVars, probe, excepted, restartVars,
                    _shutdown_event, _cleanup_callbacks, monitorVars, cfgVars, taskVars,
                    histVars, storeVars, delivered, faulted, cleanupVars >>

\* _handle_match: await db.mark_notification_sent(db_id)
MarkNotificationSent(h) ==
    /\ handler[h].pc = "mark"
    /\ db_connected
    /\ detected_messages' = mark_notification_sent(detected_messages, handler[h].db_id)
    /\ NextMatch(h, TRUE)
    /\ Done(h)
    /\ UNCHANGED << params, soloVars, providers, notifyVars, reloadVars, probe, sendAttempted, excepted,
                    restartVars, _shutdown_event, _cleanup_callbacks, monitorVars,
                    cfgVars, taskVars, histVars, channels, keywords, last_insert_rowid,
                    delivered, notifyCount, faulted, cleanupVars >>

\* the exception leaves _process_message: the task that ran it is lost
AfterException_Propagated(h) == [handler[h] EXCEPT !.pc = "crashed"]

\* except Exception as e: logged, _process_message returns
AfterException(h) == IdleHandler

\* an await of _handle_match raises (Store read or update, notification):
\* except Exception of _process_message logs it and the task ends
ProcessMessageError(h) ==
    /\ handler[h].pc \in {"dedup", "notify", "mark"}
    /\ handler' = [handler EXCEPT ![h] = AfterException(h)]
    /\ notifyCount' = IF handler[h].pc = "notify"
                      THEN [notifyCount EXCEPT ![HandlingTriple(h)] = @ + 1]
                      ELSE notifyCount
    /\ faulted' = [faulted EXCEPT ![HandlingTriple(h)] = TRUE]
    /\ excepted' = [excepted EXCEPT ![HandlingTriple(h)] = TRUE]
    /\ UNCHANGED << params, soloVars, providers, notifyVars, reloadVars, probe, sendAttempted, newDone,
                    restartVars, _shutdown_event, _cleanup_callbacks, monitorVars,
                    cfgVars, taskVars, histVars, storeVars, delivered, handledCount,
                    concurrent, cleanupVars >>

PipelineStep ==
    \/ \E h \in Handlers, m \in MessagePool : ProcessMessage(h, m)
    \/ \E h \in Handlers : DedupCheck(h)
    \/ \E h \in Handlers : AddDetectedMessage(h)
    \/ \E h \in Handlers : Notify(h)
    \/ \E h \in Handlers : MarkNotificationSent(h)
    \/ \E h \in Handlers : ProcessMessageError(h)

SupervisorStep ==
    \/ Main
    \/ RunWithRestartLoop
    \/ RunReturned
    \/ RunFailed
    \/ SleepDone
    \/ Initialize
    \/ DbConnect
    \/ LoadKeywords
    \/ LoadChannels
    \/ ClientSetup
    \/ Start
    \/ ClientStart
    \/ GetMe
    \/ WaitForShutdown
    \/ Stop
    \/ StopClient
    \/ StopDb

NextSup == SupervisorStep \/ SignalHandler

SpecSup == Init /\ [][NextSup]_vars

FairSpecSup == SpecSup /\ WF_vars(SupervisorStep)

(***************************************************************************)
(* Properties of the supervisor                                             *)
(***************************************************************************)
RunIndexes == 1..Len(runs)

\* the number of consecutive failed runs that end with run i
RECURSIVE ConsecutiveFailures(_)
ConsecutiveFailures(i) ==
    IF i = 0 \/ runs[i].outcome # "error" THEN 0 ELSE 1 + ConsecutiveFailures(i - 1)

\* C4: when the first max_retries invocations of the supervised operation all
\* raised, run_with_restart has stopped: there is no further invocation.
C4_StopsAfterMaxAttempts ==
    (Len(runs) >= max_retries /\ \A i \in 1..max_retries : runs[i].outcome = "error")
        => invocations <= max_retries

\* C5: the sleep taken after the k-th consecutive failure lasts
\* retry_delay * backoff_multiplier^(k-1), and the max_retries-th consecutive
\* failure is followed by no further invocation.
C5_BackoffDelays ==
    \A i \in RunIndexes :
        /\ runs[i].wait # NoWait
              => runs[i].wait = retry_delay * Pow(backoff_multiplier, ConsecutiveFailures(i) - 1)
        /\ ConsecutiveFailures(i) >= max_retries => invocations <= i

\* C6: a run that follows a run that returned without error starts with the
\* attempt counter at zero; when it fails it is attempt 1 and the sleep lasts
\* retry_delay.
C6_ResetAfterSuccess ==
    /\ \A i \in RunIndexes :
          (i > 1 /\ runs[i - 1].outcome = "ok" /\ runs[i].outcome = "error")
              => runs[i].attempt = 1 /\ runs[i].wait = retry_delay
    /\ (Len(runs) >= 1 /\ runs[Len(runs)].outcome = "ok" /\ invocations > Len(runs))
          => _current_retries = 0

C6_Witness ==
    \E i \in RunIndexes :
        i > 1 /\ runs[i - 1].outcome = "ok" /\ runs[i].outcome = "error"
              /\ runs[i].wait = retry_delay

\* C7: a run that left wait_for_shutdown because the shutdown event was set
\* returns without an exception: it is not counted as an attempt and no
\* backoff sleep follows it.
C7_ShutdownIsNotFailure ==
    /\ \A i \in RunIndexes :
          runs[i].waited => runs[i].outcome = "ok" /\ runs[i].attempt = 0
                            /\ runs[i].wait = NoWait
    /\ waited => ~run_raised /\ _current_retries = 0 /\ pc # "sleep"

C7_Witness == \E i \in RunIndexes : runs[i].waited /\ runs[i].outcome = "ok"

\* C8: after the run that returned on the shutdown signal, the supervised
\* operation is not invoked again.
C8_NoRestartAfterShutdown ==
    \A i \in RunIndexes : runs[i].waited => invocations <= i

\* C21: with a required credential missing (Config.validate reports an
\* error), no Store connection and no platform client or connection is ever
\* opened, and the supervised operation is invoked once only: run_with_restart
\* ends instead of starting the monitor again.
C21_MissingCredentialFatal ==
    ~config_valid =>
        /\ ~db_connected /\ ~client_created /\ ~is_connected
        /\ invocations <= 1

\* C36: when run has ended, by return or by exception, the Store connection
\* is closed and the platform client is not connected.
C36_RunLeavesNoConnection ==
    pc = "run_exit" => (~db_connected /\ ~is_connected)

\* C15: each destination kind has at most one provider in the list, also
\* after the supervisor has restarted the monitor and initialize ran again.
C15_OneProviderPerKind ==
    \A i, j \in 1..Len(providers) : providers[i].name = providers[j].name => i = j

\* every registered cleanup action has been run by GracefulShutdown.cleanup
CleanupListRun == cleanup_pc = "done" /\ Len(cleanup_log) = Len(_cleanup_callbacks)

RunningState ==
    /\ max_retries = DefaultMaxRetries
    /\ retry_delay = DefaultRetryDelay
    /\ backoff_multiplier = DefaultBackoffMultiplier
    /\ config_valid = TRUE
    /\ notify_config = RunningConfig
    /\ _running = TRUE
    /\ _current_retries = 0
    /\ _shutdown_event = FALSE
    /\ _cleanup_callbacks = <<"monitor.stop">>
    /\ is_running = TRUE
    /\ db_connected = TRUE
    /\ client_created = TRUE
    /\ is_connected = TRUE
    /\ monitored_channels = LoadedChannels(InitChannels)
    /\ patterns = LoadedPatterns(InitKeywords, Len(InitKeywords))
    /\ pc = "wait_for_shutdown"
    /\ run_raised = FALSE
    /\ waited = FALSE
    /\ invocations = 1
    /\ runs = << >>
    /\ recording = TRUE
    /\ InitStore
    /\ InitPipeline
    /\ InitCleanup
    /\ providers = setup_all(<< >>, notify_config, TRUE)
    /\ notify_pc = "idle"
    /\ sends = << >>
    /\ notify_raised = FALSE
    /\ InitReload
    /\ InitPipeHistory
    /\ probe = NoProbe
    /\ InitSolo
    /\ monitor_instance = setup_bot(NoMonitor)
    /\ cleanup_stop = "idle"
    /\ teardown = NoTeardown

\* ... with destinations that accept every send
InitRunning ==
    /\ RunningState
    /\ delivery = "all"

NextPipe == PipelineStep

SpecPipe == InitRunning /\ [][NextPipe]_vars

(***************************************************************************)
(* Properties of the detection pipeline                                     *)
(***************************************************************************)
RowsOf(t) == { row \in detected_messages : TripleOf(row) = t }

\* C1: when _handle_match has run to its end for a triple, the runs for that
\* triple came one after the other and none of them met a Store or
\* notification error, the Store holds exactly one row for the triple and
\* notify was invoked exactly once for it, however often the message came.
C1_SequentialIdempotence ==
    \A t \in Triples :
        (handledCount[t] >= 1 /\ ~concurrent[t] /\ ~faulted[t])
            => Cardinality(RowsOf(t)) = 1 /\ notifyCount[t] = 1

C1_Witness ==
    \E t \in Triples :
        /\ handledCount[t] >= 2 /\ ~concurrent[t] /\ ~faulted[t]
        /\ Cardinality(RowsOf(t)) = 1 /\ notifyCount[t] = 1

\* C2: no two rows of detected_messages have the same
\* (message_id, channel_id, keyword_matched).
C2_UniqueTriple ==
    \A r1, r2 \in detected_messages : TripleOf(r1) = TripleOf(r2) => r1 = r2

\* add_detected_message was called twice for one triple and one row was kept
C2_Witness ==
    \E t \in Triples :
        notifyCount[t] >= 2 /\ ~faulted[t] /\ Cardinality(RowsOf(t)) = 1

\* C3: with a Store that works, notify is invoked at most once for a triple,
\* also when the handler invocations for it interleave.
C3_NotifyAtMostOnce ==
    \A t \in Triples : ~faulted[t] => notifyCount[t] <= 1

\* C13: every row of detected_messages with notification_sent set belongs to
\* a detection for which a send to at least one provider was attempted.
C13_SentImpliesAttempt ==
    \A row \in detected_messages : row.notification_sent => sendAttempted[TripleOf(row)]

\* the values _is_monitored_channel looks up for the chat of a message
ChatNames(m) == {m.chat_id} \cup (IF m.username = "" THEN {} ELSE {m.username, "@" \o m.username})

\* the keyword occurs in the text, letter case ignored
Occurs(keyword, text) ==
    \E i \in 1..(Len(text) - Len(keyword) + 1) :
        Lower(SubSeq(text, i, i + Len(keyword) - 1)) = Lower(keyword)

\* the message is dropped for the keyword: its channel is not watched, or it
\* has neither text nor caption, or the keyword does not occur in its text
DroppedFor(m, keyword) ==
    \/ ChatNames(m) \cap monitored_channels = {}
    \/ m.text = << >> /\ m.caption = << >>
    \/ ~Occurs(keyword, IF m.text # << >> THEN m.text ELSE m.caption)

\* C17: a message of an unwatched channel, without text and caption, or that
\* a pattern does not match never gets a row in the Store, a notify or a send
\* for that pattern, and no handler task works on it.
C17_DroppedLeavesNoTrace ==
    \A m \in MessagePool, keyword \in KeywordPool :
        DroppedFor(m, keyword) =>
            LET t == <<m.id, m.chat_id, keyword>>
            IN  /\ RowsOf(t) = {}
                /\ notifyCount[t] = 0
                /\ ~sendAttempted[t]
                /\ \A h \in Handlers : ~(InHandleMatch(h) /\ HandlingTriple(h) = t)

\* messages were delivered and dropped: nothing was stored, notified or begun
C17_Witness ==
    /\ delivered >= 1
    /\ detected_messages = {} /\ last_insert_rowid = 0
    /\ \A h \in Handlers : handler[h] = IdleHandler
    /\ \A t \in Triples : notifyCount[t] = 0 /\ ~sendAttempted[t] /\ ~faulted[t]

\* C19: the processing of a message ends only after its last matched
\* pattern: a failure in handling one pattern leaves the handling of the
\* remaining matched patterns to follow.
C19_RemainingPatternsHandled ==
    [][\A h \in Handlers :
          (InHandleMatch(h) /\ handler'[h].pc = "idle") => Len(handler[h].matches) = 1]_vars

\* C30: for a detection that met no Store or notification error, the insert
\* of its row comes first, then one notify, then the update of
\* notification_sent on that same row: there are no more notifies than
\* inserted rows, a handler task that has reached the notify or the update
\* inserted the row itself and holds its id, and a row is marked only after
\* the notify of its detection.
C30_InsertNotifyMark ==
    \A t \in Triples :
        ~faulted[t] =>
            /\ notifyCount[t] <= Cardinality(RowsOf(t))
            /\ \A h \in Handlers :
                  (handler[h].pc \in {"notify", "mark"} /\ HandlingTriple(h) = t) =>
                      /\ handler[h].inserted
                      /\ \E row \in RowsOf(t) : row.id = handler[h].db_id
            /\ \A row \in RowsOf(t) : row.notification_sent => notifyCount[t] >= 1

(***************************************************************************)
(* The pipeline with one handler task at a time and destinations that       *)
(* accept all, some or none of the sends.                                   *)
(***************************************************************************)
InitSeq ==
    /\ RunningState
    /\ delivery \in Outcomes(Len(providers))

NextSeq ==
    \/ \E m \in MessagePool : ProcessMessage("h1", m)
    \/ DedupCheck("h1")
    \/ AddDetectedMessage("h1")
    \/ Notify("h1")
    \/ MarkNotificationSent("h1")
    \/ ProcessMessageError("h1")

SpecSeq == InitSeq /\ [][NextSeq]_vars

\* C12: when _handle_match has run to its end for a detection it inserted
\* itself, the row has notification_sent set, whether the sends of its notify
\* succeeded all, in part or not at all.
C12_SentAfterNotify ==
    \A t \in Triples :
        newDone[t] => \E row \in RowsOf(t) : row.notification_sent

\* a new detection is marked as sent although no send of its notify succeeded
C12_Witness ==
    /\ delivery = "none"
    /\ \E t \in Triples :
          newDone[t] /\ sendAttempted[t] /\ \E row \in RowsOf(t) : row.notification_sent

\* C18: no exception leaves _process_message: the handler task is never lost
\* to one, it is idle again and takes the next message.
C18_ExceptionContained ==
    \A h \in Handlers :
        /\ handler[h].pc \in {"idle", "dedup", "insert", "notify", "mark"}
        /\ handler[h].pc = "idle" => handler[h] = IdleHandler

\* after an exception was caught for a triple, the replayed message has
\* been processed and has produced the detection
C18_Witness ==
    \E t \in Triples :
        /\ excepted[t] /\ ~concurrent[t]
        /\ handler["h1"].pc = "notify" /\ handler["h1"].inserted
        /\ HandlingTriple("h1") = t
        /\ RowsOf(t) # {}

\* C33: every triple for which notify was invoked has a row in
\* detected_messages, also when the insert of the row failed.
C33_NotifyOnlyPersisted ==
    \A t \in Triples : notifyCount[t] > 0 => RowsOf(t) # {}

(***************************************************************************)
(* The pipeline with one handler task that can be cancelled between the     *)
(* insert of a detection and its notification, and the replay of messages.  *)
(***************************************************************************)
\* the task of _handle_match ends at the await of add_detected_message, after
\* the commit of the row: CancelledError is no Exception, neither
\* add_detected_message nor _process_message catches it.  unnotified keeps
\* the number of the next handling of the triple
HandleMatchCancelled(h) ==
    /\ handler[h].pc = "notify"
    /\ handler[h].inserted
    /\ handler' = [handler EXCEPT ![h] = IdleHandler]
    /\ unnotified' = [unnotified EXCEPT ![HandlingTriple(h)] = handledCount[HandlingTriple(h)] + 1]
    /\ UNCHANGED << params, schedVars, searched, calls, botVars, stopVars, providers,
                    notifyVars, reloadVars, probe, pipeHistVars, restartVars,
                    _shutdown_event, _cleanup_callbacks, monitorVars, cfgVars, taskVars,
                    histVars, storeVars, delivered, notifyCount, handledCount, concurrent,
                    faulted, cleanupVars >>

NextReplay ==
    \/ NextSeq
    \/ HandleMatchCancelled("h1")

SpecReplay == InitRunning /\ [][NextReplay]_vars

\* C38: when the handling of a detection ended after its row was persisted
\* and before notify was invoked, and the same message has been handled
\* again since, notify has been invoked for the detection.
C38_ReplayNotifies ==
    \A t \in Triples :
        (unnotified[t] > 0 /\ handledCount[t] >= unnotified[t]) => notifyCount[t] > 0

(***************************************************************************)
(* The pipeline with one handler task and messages of the watched channel   *)
(* with and without a username.                                             *)
(***************************************************************************)
LinkPool == {AnonymousMsg} \cup { m \in MessagePool : m.id = 1 /\ m.chat_id = "100" }

NextLink ==
    \/ \E m \in LinkPool : ProcessMessage("h1", m)
    \/ DedupCheck("h1")
    \/ AddDetectedMessage("h1")
    \/ Notify("h1")
    \/ MarkNotificationSent("h1")
    \/ ProcessMessageError("h1")

SpecLink == InitRunning /\ [][NextLink]_vars

\* C29: the message_link of a stored detection is "https://t.me/", the
\* username of the channel, "/" and the message id when the channel of the
\* message has a username, and it is None when the channel has none.
C29_MessageLink ==
    \A row \in detected_messages, m \in LinkPool :
        (row.message_id = m.id /\ row.channel_id = m.chat_id) =>
            row.message_link = IF m.username # ""
                               THEN <<"https://t.me/", m.username, "/", m.id>>
                               ELSE None

(***************************************************************************)
(* The shutdown signal while one handler task works: run leaves              *)
(* wait_for_shutdown and its finally block calls stop.                      *)
(***************************************************************************)
NextStop ==
    \/ SignalHandler
    \/ WaitForShutdown
    \/ Stop
    \/ StopClient
    \/ StopDb
    \/ NextSeq

SpecStop == InitRunning /\ [][NextStop]_vars

\* C22: the Store connection is not closed while a handler task is inside
\* _handle_match: the persist, notify and mark steps of a message in flight
\* at the shutdown signal are done on the open connection.
C22_TeardownWaitsForInFlight ==
    ~db_connected => \A h \in Handlers : ~InHandleMatch(h)

(***************************************************************************)
(* ChannelMonitor.stop as the registered cleanup action: a second caller of *)
(* stop, in a task of its own beside the task of run_with_restart.          *)
(***************************************************************************)
\* cleanup awaits monitor.stop(): the is_running test and is_running = False
\* (a call that finds is_running False returns at once and changes nothing)
CleanupStop ==
    /\ cleanup_stop = "idle"
    /\ Len(_cleanup_callbacks) > 0
    /\ is_running
    /\ is_running' = FALSE
    /\ cleanup_stop' = "stop_client"
    /\ UNCHANGED << params, providers, notifyVars, reloadVars, probe, pipeHistVars, schedVars,
                    searched, calls, botVars, teardown, unnotified, restartVars, _shutdown_event,
                    _cleanup_callbacks, db_connected, client_created, is_connected, cfgVars,
                    taskVars, histVars, storeVars, pipeVars, cleanupVars >>

\* ... its client.stop(), if connected
CleanupStopClient ==
    /\ cleanup_stop = "stop_client"
    /\ ClientStop
    /\ cleanup_stop' = "stop_db"
    /\ UNCHANGED << params, providers, notifyVars, reloadVars, probe, pipeHistVars, schedVars,
                    searched, calls, botVars, unnotified, restartVars, _shutdown_event,
                    _cleanup_callbacks, is_running, db_connected, client_created, cfgVars,
                    taskVars, histVars, storeVars, pipeVars, cleanupVars >>

\* ... its db.disconnect(), after which stop returns to cleanup
CleanupStopDb ==
    /\ cleanup_stop = "stop_db"
    /\ DbDisconnect
    /\ cleanup_stop' = "idle"
    /\ UNCHANGED << params, providers, notifyVars, reloadVars, probe, pipeHistVars, schedVars,
                    searched, calls, botVars, unnotified, restartVars, _shutdown_event,
                    _cleanup_callbacks, is_running, client_created, is_connected, cfgVars,
                    taskVars, histVars, storeVars, pipeVars, cleanupVars >>

\* one run of ChannelMonitor.run, from the first turn of the restart loop to
\* the end of the finally block, with the cleanup action beside it
NextTeardown ==
    \/ Main
    \/ RunWithRestartLoop
    \/ SignalHandler
    \/ Initialize
    \/ DbConnect
    \/ LoadKeywords
    \/ LoadChannels
    \/ ClientSetup
    \/ Start
    \/ ClientStart
    \/ GetMe
    \/ WaitForShutdown
    \/ Stop
    \/ StopClient
    \/ StopDb
    \/ CleanupStop
    \/ CleanupStopClient
    \/ CleanupStopDb

SpecTeardown == Init /\ [][NextTeardown]_vars

\* C37: within one run, the stop calls of the run's finally block and of the
\* cleanup action together have executed client.stop() at most once, and
\* only on a connected client, and db.disconnect() at most once.
C37_TeardownAtMostOnce ==
    /\ teardown.client_stops <= 1
    /\ teardown.db_closes <= 1
    /\ ~teardown.unconnected

\* the stop of the finally block has returned while the stop of the cleanup
\* action, which stopped the client, has not yet closed the Store
C37_Witness ==
    /\ pc = "run_exit"
    /\ cleanup_stop = "stop_db"
    /\ teardown.client_stops = 1
    /\ teardown.db_closes = 0

(***************************************************************************)
(* GracefulShutdown.cleanup, run over a list of registered actions.  main() *)
(* registers monitor.stop; schedule_manager.stop stands for an action that  *)
(* is not a coroutine function.                                             *)
(***************************************************************************)
CallbackPool == {"monitor.stop", "schedule_manager.stop"}

\* asyncio.iscoroutinefunction(callback)
iscoroutinefunction(callback) == callback = "monitor.stop"

\* graceful_shutdown.add_cleanup(callback) before cleanup is run
AddCleanup(callback) ==
    /\ cleanup_pc = "idle"
    /\ Len(_cleanup_callbacks) < MaxCallbacks
    /\ _cleanup_callbacks' = add_cleanup(_cleanup_callbacks, callback)
    /\ UNCHANGED << params, extVars, restartVars, _shutdown_event, monitorVars, cfgVars, taskVars,
                    histVars, storeVars, pipeVars, cleanupVars >>

\* cleanup(): the log line, then the for loop starts
CleanupStart ==
    /\ cleanup_pc = "idle"
    /\ cleanup_pc' = "loop"
    /\ cleanup_i' = 0
    /\ UNCHANGED << params, extVars, restartVars, _shutdown_event, _cleanup_callbacks, monitorVars,
                    cfgVars, taskVars, histVars, storeVars, pipeVars, cleanup_log,
                    cleanup_raised >>

\* the callback has ended: except Exception logs a raise and the loop goes on
CallbackEnded(raised) ==
    /\ cleanup_log' = Append(cleanup_log,
                             [callback |-> _cleanup_callbacks[cleanup_i + 1], raised |-> raised])
    /\ cleanup_i' = cleanup_i + 1
    /\ cleanup_pc' = "loop"
    /\ cleanup_raised' = cleanup_raised

\* a loop body without the try: a raise of the callback leaves cleanup()
CleanupCall_Uncaught ==
    /\ cleanup_pc = "loop"
    /\ cleanup_i < Len(_cleanup_callbacks)
    /\ \E raised \in BOOLEAN :
          IF raised
          THEN /\ cleanup_log' = Append(cleanup_log,
                                        [callback |-> _cleanup_callbacks[cleanup_i + 1],
                                         raised |-> TRUE])
               /\ cleanup_raised' = TRUE
               /\ cleanup_pc' = "raised"
               /\ cleanup_i' = cleanup_i
          ELSE CallbackEnded(FALSE)
    /\ UNCHANGED << params, extVars, restartVars, _shutdown_event, _cleanup_callbacks, monitorVars,
                    cfgVars, taskVars, histVars, storeVars, pipeVars >>

\* one turn of the for loop: await callback() suspends, callback() runs at once
CleanupCall ==
    /\ cleanup_pc = "loop"
    /\ cleanup_i < Len(_cleanup_callbacks)
    /\ IF iscoroutinefunction(_cleanup_callbacks[cleanup_i + 1])
       THEN /\ cleanup_pc' = "await"
            /\ UNCHANGED << cleanup_i, cleanup_log, cleanup_raised >>
       ELSE \E raised \in BOOLEAN : CallbackEnded(raised)
    /\ UNCHANGED << params, extVars, restartVars, _shutdown_event, _cleanup_callbacks, monitorVars,
                    cfgVars, taskVars, histVars, storeVars, pipeVars >>

\* the awaited callback returns or raises
CleanupAwaitDone ==
    /\ cleanup_pc = "await"
    /\ \E raised \in BOOLEAN : CallbackEnded(raised)
    /\ UNCHANGED << params, extVars, restartVars, _shutdown_event, _cleanup_callbacks, monitorVars,
                    cfgVars, taskVars, histVars, storeVars, pipeVars >>

\* the list is exhausted: the final log line, cleanup() returns
CleanupDone ==
    /\ cleanup_pc = "loop"
    /\ cleanup_i = Len(_cleanup_callbacks)
    /\ cleanup_pc' = "done"
    /\ UNCHANGED << params, extVars, restartVars, _shutdown_event, _cleanup_callbacks, monitorVars,
                    cfgVars, taskVars, histVars, storeVars, pipeVars, cleanup_i,
                    cleanup_log, cleanup_raised >>

InitConstructed ==
    /\ Init
    /\ max_retries = DefaultMaxRetries
    /\ config_valid

NextCleanup ==
    \/ \E callback \in CallbackPool : AddCleanup(callback)
    \/ CleanupStart
    \/ CleanupCall
    \/ CleanupAwaitDone
    \/ CleanupDone

SpecCleanup == InitConstructed /\ [][NextCleanup]_vars

\* C10: cleanup never raises; it calls the registered actions one after the
\* other in registration order, each registration once, whether or not an
\* earlier one raised; when it returns, all of them have been called.
C10_CleanupRunsAll ==
    /\ ~cleanup_raised
    /\ cleanup_pc # "raised"
    /\ Len(cleanup_log) <= Len(_cleanup_callbacks)
    /\ \A i \in 1..Len(cleanup_log) : cleanup_log[i].callback = _cleanup_callbacks[i]
    /\ cleanup_pc \in {"idle", "loop", "await"} => Len(cleanup_log) = cleanup_i
    /\ cleanup_pc = "done" => Len(cleanup_log) = Len(_cleanup_callbacks)

\* cleanup returned after its first action raised and a later one ran
C10_Witness ==
    /\ cleanup_pc = "done"
    /\ Len(_cleanup_callbacks) >= 2
    /\ cleanup_log[1].raised
    /\ ~cleanup_log[2].raised

(***************************************************************************)
(* NotificationManager on its own: setup_all once, then notify calls, each  *)
(* with one send task per provider run concurrently by asyncio.gather.      *)
(***************************************************************************)
\* the frame of the steps of the manager
NotifyFrame ==
    UNCHANGED << params, soloVars, restartVars, _shutdown_event, _cleanup_callbacks, monitorVars, cfgVars,
                 taskVars, histVars, storeVars, pipeVars, cleanupVars, reloadVars, probe,
                 pipeHistVars >>

\* setup_all(telegram_client) on the fresh manager
SetupAll ==
    /\ notify_pc = "new"
    /\ \E telegram_client \in BOOLEAN :
          providers' = setup_all(providers, notify_config, telegram_client)
    /\ notify_pc' = "idle"
    /\ UNCHANGED << sends, notify_raised >>
    /\ NotifyFrame

\* notify: the empty-list return, or one task per provider handed to gather
NotifyStart ==
    /\ notify_pc = "idle"
    /\ IF providers = << >>
       THEN /\ notify_pc' = "returned"
            /\ sends' = << >>
       ELSE /\ notify_pc' = "gather"
            /\ sends' = [i \in 1..Len(providers) |-> "pending"]
    /\ notify_raised' = FALSE
    /\ UNCHANGED providers
    /\ NotifyFrame

\* send: the is_configured test, then up to the await inside the try
SendBegin(i) ==
    /\ i \in DOMAIN sends
    /\ sends[i] = "pending"
    /\ sends' = [sends EXCEPT ![i] = IF is_configured(providers[i]) THEN "running" ELSE "failed"]
    /\ UNCHANGED << providers, notify_pc, notify_raised >>
    /\ NotifyFrame

\* a send that lets its failure escape: gather passes it on to notify at once
SendEnd_Uncaught(i) ==
    /\ i \in DOMAIN sends
    /\ sends[i] = "running"
    /\ \E ok \in BOOLEAN :
          /\ sends' = [sends EXCEPT ![i] = IF ok THEN "ok" ELSE "raised"]
          /\ notify_raised' = (notify_raised \/ ~ok)
          /\ notify_pc' = IF ok THEN notify_pc ELSE "returned"
    /\ UNCHANGED providers
    /\ NotifyFrame

\* send: the awaited delivery succeeds (True), or its exception, non-2xx
\* status or SMTP error ends in return False
SendEnd(i) ==
    /\ i \in DOMAIN sends
    /\ sends[i] = "running"
    /\ \E ok \in BOOLEAN :
          sends' = [sends EXCEPT ![i] = IF ok THEN "ok" ELSE "failed"]
    /\ UNCHANGED << providers, notify_pc, notify_raised >>
    /\ NotifyFrame

\* await asyncio.gather(*tasks) resumes when every task is done
GatherDone ==
    /\ notify_pc = "gather"
    /\ \A i \in DOMAIN sends : sends[i] \in {"ok", "failed"}
    /\ notify_pc' = "returned"
    /\ UNCHANGED << providers, sends, notify_raised >>
    /\ NotifyFrame

\* the caller goes on and may notify again
NotifyReturned ==
    /\ notify_pc = "returned"
    /\ notify_pc' = "idle"
    /\ UNCHANGED << providers, sends, notify_raised >>
    /\ NotifyFrame

InitManager ==
    /\ Init
    /\ max_retries = DefaultMaxRetries

NextNotify ==
    \/ SetupAll
    \/ NotifyStart
    \/ \E i \in DOMAIN sends : SendBegin(i)
    \/ \E i \in DOMAIN sends : SendEnd(i)
    \/ GatherDone
    \/ NotifyReturned

SpecNotify == InitManager /\ [][NextNotify]_vars

\* C11: when notify has returned, the send of every registered provider was
\* invoked and has finished (none is pending, running or cancelled), whether
\* it succeeded or failed, and notify did not raise.
C11_NotifyAllProviders ==
    notify_pc = "returned" =>
        /\ ~notify_raised
        /\ DOMAIN sends = 1..Len(providers)
        /\ \A i \in DOMAIN sends : sends[i] \in {"ok", "failed"}

\* notify has returned after one provider failed and another one succeeded
C11_Witness ==
    /\ notify_pc = "returned"
    /\ \E i, j \in DOMAIN sends : sends[i] = "failed" /\ sends[j] = "ok"

\* the required fields of a provider, all non-empty
RequiredNonEmpty(p) ==
    IF p.name = "telegram"
    THEN p.client # NoClient /\ p.chat_id # IntId(0) /\ p.chat_id # StrId(<< >>)
    ELSE IF p.name = "discord" THEN p.webhook_url # ""
    ELSE "" \notin {p.smtp_server, p.username, p.password, p.to_email}

\* C14: every provider of the list has all its required fields non-empty, at
\* most the providers built from the configuration are in the list, and a
\* send has only been started on such a provider.
C14_OnlyConfiguredProviders ==
    /\ \A i \in 1..Len(providers) : RequiredNonEmpty(providers[i])
    /\ \A i \in DOMAIN sends : i \in 1..Len(providers) /\ RequiredNonEmpty(providers[i])

\* the manager was set up with a client and an e-mail configuration without
\* password, and a notify has run to its end
C14_Witness ==
    /\ notify_config.EMAIL_PASSWORD = "" /\ notify_config.EMAIL_TO # ""
    /\ notify_pc = "returned"
    /\ Len(providers) = 2
    /\ \A i \in DOMAIN sends : sends[i] \in {"ok", "failed"}

(***************************************************************************)
(* reload_config while the monitor runs, and the Store edits of the         *)
(* dashboard that make a reload change the configuration.                   *)
(***************************************************************************)
\* Database.toggle_channel
toggle_channel(rows, channel_id, is_active) ==
    [i \in 1..Len(rows) |-> IF rows[i].channel_id = channel_id
                            THEN [rows[i] EXCEPT !.is_active = is_active]
                            ELSE rows[i]]

\* Database.toggle_keyword; the id of a row is its position
toggle_keyword(rows, keyword_id, is_active) ==
    [i \in 1..Len(rows) |-> IF i = keyword_id
                            THEN [rows[i] EXCEPT !.is_active = is_active]
                            ELSE rows[i]]

\* the frame of the steps that edit the Store or reload the configuration
ConfigFrame ==
    UNCHANGED << params, soloVars, restartVars, _shutdown_event, _cleanup_callbacks, monitorVars, taskVars,
                 histVars, detected_messages, last_insert_rowid, pipeVars, cleanupVars,
                 providers, notifyVars, pipeHistVars >>

\* POST /api/channels/<channel_id>/toggle
ToggleChannel ==
    /\ edits < MaxEdits
    /\ \E i \in 1..Len(channels) :
          channels' = toggle_channel(channels, channels[i].channel_id, ~channels[i].is_active)
    /\ edits' = edits + 1
    /\ UNCHANGED << keywords, cfgVars, reload_pc, reload_old, observed, torn, reloaded, probe >>
    /\ ConfigFrame

\* POST /api/keywords/<keyword_id>/toggle
ToggleKeyword ==
    /\ edits < MaxEdits
    /\ \E i \in 1..Len(keywords) :
          keywords' = toggle_keyword(keywords, i, ~keywords[i].is_active)
    /\ edits' = edits + 1
    /\ UNCHANGED << channels, cfgVars, reload_pc, reload_old, observed, torn, reloaded, probe >>
    /\ ConfigFrame

\* keywords that the operator adds while the monitor runs
AddedKeywords == { <<"z">> }

\* Database.add_keyword: INSERT OR IGNORE on the unique keyword
add_keyword_row(rows, keyword, is_regex) ==
    IF \E i \in 1..Len(rows) : rows[i].keyword = keyword
    THEN rows
    ELSE Append(rows, [keyword |-> keyword, is_regex |-> is_regex, is_active |-> TRUE])

\* /addkeyword of the bot, POST /api/keywords of the dashboard
AddKeyword ==
    /\ edits < MaxEdits
    /\ \E keyword \in AddedKeywords, is_regex \in BOOLEAN :
          keywords' = add_keyword_row(keywords, keyword, is_regex)
    /\ edits' = edits + 1
    /\ UNCHANGED << channels, cfgVars, reload_pc, reload_old, observed, torn, reloaded, probe >>
    /\ ConfigFrame

\* reload_config is called: up to the await of get_keywords in _load_keywords
ReloadConfig ==
    /\ reload_pc = "idle"
    /\ reload_pc' = "load_keywords"
    /\ reload_old' = <<patterns, monitored_channels>>
    /\ observed' = {}
    /\ reloaded' = [NoReload EXCEPT !.result = "running",
                                    !.before = <<patterns, monitored_channels>>]
    /\ UNCHANGED << channels, keywords, cfgVars, torn, edits, probe >>
    /\ ConfigFrame

\* reload_config ends, by return or by exception, with the pair final: the
\* pairs that messages saw meanwhile are compared with the old and the new one
ReloadEnded(final, result) ==
    /\ reload_pc' = "idle"
    /\ reloaded' = [reloaded EXCEPT !.result = result, !.channels = channels,
                                    !.edits = edits]
    /\ torn' = (torn \/ \E pair \in observed : pair \notin {reload_old, final})
    /\ observed' = {}
    /\ reload_old' = << >>

\* _load_keywords: get_keywords returns, clear_patterns and the adds follow
\* without an await; or get_keywords raises
ReloadKeywords ==
    /\ reload_pc = "load_keywords"
    /\ \/ /\ patterns' = LoadedPatterns(keywords, Len(keywords))
          /\ reload_pc' = "load_channels"
          /\ reloaded' = [reloaded EXCEPT !.keywords = keywords]
          /\ UNCHANGED << reload_old, observed, torn >>
       \/ /\ patterns' = patterns
          /\ ReloadEnded(<<patterns, monitored_channels>>, "failed")
    /\ UNCHANGED << channels, keywords, monitored_channels, edits, probe >>
    /\ ConfigFrame

\* _load_channels: get_channels returns, clear and the adds follow without
\* an await; or get_channels raises
ReloadChannels ==
    /\ reload_pc = "load_channels"
    /\ \/ /\ monitored_channels' = LoadedChannels(channels)
          /\ ReloadEnded(<<patterns, LoadedChannels(channels)>>, "completed")
       \/ /\ monitored_channels' = monitored_channels
          /\ ReloadEnded(<<patterns, monitored_channels>>, "failed")
    /\ UNCHANGED << channels, keywords, patterns, edits, probe >>
    /\ ConfigFrame

NextReload ==
    \/ ToggleChannel
    \/ ToggleKeyword
    \/ ReloadConfig
    \/ ReloadKeywords
    \/ ReloadChannels
    \/ \E h \in Handlers, m \in MessagePool : ProcessMessage(h, m)

SpecReload == InitRunning /\ [][NextReload]_vars

\* C20: no message processed while reload_config was in progress has seen a
\* pair (pattern list, watched set) other than the complete old one or the
\* complete new one.
C20_ReloadIsAtomic == ~torn

(***************************************************************************)
(* reload_config and the Store edits on their own: what a reload leaves in  *)
(* the watched set and in the pattern list.                                 *)
(***************************************************************************)
NextConfig ==
    \/ ToggleChannel
    \/ ToggleKeyword
    \/ AddKeyword
    \/ ReloadConfig
    \/ ReloadKeywords
    \/ ReloadChannels

SpecConfig == InitRunning /\ [][NextConfig]_vars

\* the rows of a table that are active, in table order
ActiveRows(rows) == SelectSeq(rows, LAMBDA row : row.is_active)

\* one pattern per active keyword row: Regex for a regex row, Contains otherwise
ActivePatterns(rows) ==
    [i \in 1..Len(ActiveRows(rows)) |->
        SearchPattern(ActiveRows(rows)[i].keyword,
                      IF ActiveRows(rows)[i].is_regex THEN "regex" ELSE "contains", FALSE)]

\* the channel ids and the non-empty usernames of the active channel rows
ActiveChannelNames(rows) ==
    { rows[i].channel_id : i \in { j \in 1..Len(rows) : rows[j].is_active } }
    \cup { rows[i].username : i \in { j \in 1..Len(rows) : rows[j].is_active
                                                          /\ rows[j].username # "" } }

\* the last reload_config completed and the Store was not edited after it
ReloadCompleted ==
    /\ reload_pc = "idle"
    /\ reloaded.result = "completed"

\* C31 as stated: after reload_config completes (and until the Store is edited
\* again) the watched set and the pattern list are those of the active rows
\* that the Store holds.
C31_ReloadMatchesStore ==
    (ReloadCompleted /\ edits = reloaded.edits) =>
        /\ monitored_channels = ActiveChannelNames(channels)
        /\ patterns = ActivePatterns(keywords)

\* C31: after reload_config completes, the watched set is that of the active
\* channel rows that the Store held when the reload completed, and the
\* pattern list is that of the active keyword rows that the Store held when
\* the reload read the keywords table.
C31_ReloadMatchesRowsRead ==
    ReloadCompleted =>
        /\ monitored_channels = ActiveChannelNames(reloaded.channels)
        /\ patterns = ActivePatterns(reloaded.keywords)

\* a reload after channel 100 and keyword "a" were disabled: the
\* configuration before it matched them, the one after it does not
C31_Witness ==
    /\ ReloadCompleted
    /\ "100" \in reloaded.before[2]
    /\ "100" \notin monitored_channels
    /\ \E i \in 1..Len(reloaded.before[1]) : reloaded.before[1][i].pattern = <<"a">>
    /\ \A i \in 1..Len(patterns) : patterns[i].pattern # <<"a">>

\* C35: when reload_config has ended with an exception of a Store read, the
\* pattern list and the watched set are the ones from before the reload.
C35_FailedReloadKeepsConfig ==
    (reload_pc = "idle" /\ reloaded.result = "failed") =>
        <<patterns, monitored_channels>> = reloaded.before

(***************************************************************************)
(* The /reload command of the bot while the monitor runs.                   *)
(***************************************************************************)
\* MonitorBot._cmd_reload up to its first await: without monitor_instance the
\* command is answered with "Cannot reload", else reload_config is called
CmdReload ==
    /\ is_connected
    /\ reload_pc = "idle"
    /\ IF monitor_instance = NoMonitor
       THEN /\ reload_cmd' = "refused"
            /\ UNCHANGED << reload_pc, reload_old, observed, reloaded >>
       ELSE /\ reload_cmd' = "reloading"
            /\ reload_pc' = "load_keywords"
            /\ reload_old' = <<patterns, monitored_channels>>
            /\ observed' = {}
            /\ reloaded' = [NoReload EXCEPT !.result = "running",
                                            !.before = <<patterns, monitored_channels>>]
    /\ UNCHANGED << params, schedVars, searched, calls, monitor_instance, stopVars, unnotified,
                    restartVars,
                    _shutdown_event, _cleanup_callbacks, monitorVars, taskVars, histVars,
                    storeVars, cfgVars, torn, edits, probe, pipeVars, cleanupVars,
                    providers, notifyVars, pipeHistVars >>

NextBot ==
    \/ ToggleChannel
    \/ AddKeyword
    \/ CmdReload
    \/ \E m \in MessagePool : ProcessMessage("h1", m)

SpecBot == InitRunning /\ [][NextBot]_vars

\* C34: once the operator has issued /reload to the bot of the running
\* monitor, reload_config of the monitor has been entered.
C34_ReloadCommandReloads ==
    reload_cmd # "none" => (reload_pc # "idle" \/ reloaded.result # "none")

(***************************************************************************)
(* _is_monitored_channel, called on the watched sets that a reload makes    *)
(* out of the channels table.                                               *)
(***************************************************************************)
ChatIdPool == {"100", "900"}

UsernamePool == {"", "foo", "bar"}

\* one call of _is_monitored_channel, kept with its arguments and the set
CheckChannel(channel_id, username) ==
    /\ probe' = [called |-> TRUE, channel_id |-> channel_id, username |-> username,
                 watched |-> monitored_channels,
                 result |-> _is_monitored_channel(channel_id, username)]
    /\ UNCHANGED << channels, keywords, cfgVars, reloadVars >>
    /\ ConfigFrame

NextWatch ==
    \/ ToggleChannel
    \/ ReloadConfig
    \/ ReloadKeywords
    \/ ReloadChannels
    \/ \E channel_id \in ChatIdPool, username \in UsernamePool :
          CheckChannel(channel_id, username)

SpecWatch == InitRunning /\ [][NextWatch]_vars

\* C16: _is_monitored_channel(channel_id, username) is true exactly when the
\* watched set holds channel_id or, for a non-empty username, holds username
\* or "@" followed by username.
C16_MonitoredChannel ==
    probe.called =>
        (probe.result <=>
            \/ probe.channel_id \in probe.watched
            \/ /\ probe.username # ""
               /\ probe.watched \cap {probe.username, "@" \o probe.username} # {})

\* a chat was recognised by "@" and its username alone
C16_Witness ==
    /\ probe.called /\ probe.result
    /\ probe.channel_id \notin probe.watched
    /\ probe.username \notin probe.watched

(***************************************************************************)
(* ScheduleManager.  A time of day is an hour of a short day, a day of the  *)
(* week is 0 or 1.                                                          *)
(***************************************************************************)
\* start_time: Optional[time] = None, end_time: Optional[time] = None
NoTime == -1

Times == 0..3

Days == {0, 1}

\* Schedule(...); days_of_week None or [] is the empty set
Schedule(name, schedule_type, start_time, end_time, days_of_week, is_active) ==
    [name |-> name, schedule_type |-> schedule_type, start_time |-> start_time,
     end_time |-> end_time, days_of_week |-> days_of_week, is_active |-> is_active]

\* a window of day 0, one that ends before it starts, one without end on day
\* 1, an interval schedule without times, an inactive window
WorkWindow == Schedule("work", "daily", 1, 2, {0}, TRUE)

SchedulePool ==
    { WorkWindow,
      Schedule("night", "daily", 3, 0, {}, TRUE),
      Schedule("late", "daily", 2, NoTime, {1}, TRUE),
      Schedule("poll", "interval", NoTime, NoTime, {}, TRUE),
      Schedule("off", "daily", 0, 3, {}, FALSE) }

\* the return after the loop of a check that is off when no window matched
NoWindowMatched_Off(list) == FALSE

\* return len(self.schedules) == 0
NoWindowMatched(list) == Len(list) = 0

RECURSIVE WithinFrom(_, _, _, _)
\* the for loop of is_within_schedule from the i-th schedule on
WithinFrom(list, i, today, now) ==
    IF i > Len(list) THEN NoWindowMatched(list)
    ELSE LET schedule == list[i]
             next == WithinFrom(list, i + 1, today, now)
         IN  IF ~schedule.is_active THEN next
             ELSE IF schedule.days_of_week # {} /\ today \notin schedule.days_of_week
                  THEN next
             ELSE IF schedule.start_time # NoTime /\ schedule.end_time # NoTime
                  THEN IF schedule.start_time <= now /\ now <= schedule.end_time
                       THEN TRUE ELSE next
             ELSE IF schedule.start_time # NoTime
                  THEN IF now >= schedule.start_time THEN TRUE ELSE next
             ELSE next

\* ScheduleManager.is_within_schedule with datetime.now() = (today, now)
is_within_schedule(list, today, now) == WithinFrom(list, 1, today, now)

\* the frame of the steps of the ScheduleManager
ScheduleFrame ==
    UNCHANGED << params, restartVars, _shutdown_event, _cleanup_callbacks, monitorVars, cfgVars,
                 taskVars, histVars, storeVars, pipeVars, cleanupVars, providers, notifyVars,
                 reloadVars, probe, pipeHistVars, searched, calls, botVars, stopVars,
                 unnotified >>

\* add_schedule: the append; the jobs it registers are the steps
\* StartMonitoring and StopMonitoring
AddSchedule(schedule) ==
    /\ Len(schedules) < MaxSchedules
    /\ schedules' = Append(schedules, schedule)
    /\ UNCHANGED << _monitor_callback, _is_monitoring, last_job, within >>
    /\ ScheduleFrame

\* one call of is_within_schedule, kept with the clock and the list
IsWithinSchedule(today, now) ==
    /\ within' = [called |-> TRUE, schedules |-> schedules, today |-> today, now |-> now,
                  result |-> is_within_schedule(schedules, today, now)]
    /\ UNCHANGED << schedules, _monitor_callback, _is_monitoring, last_job >>
    /\ ScheduleFrame

NextGate ==
    \/ \E schedule \in SchedulePool : AddSchedule(schedule)
    \/ \E today \in Days, now \in Times : IsWithinSchedule(today, now)

SpecGate == InitConstructed /\ [][NextGate]_vars

\* the window has no day list or lists the day
CoversDay(schedule, today) ==
    schedule.days_of_week = {} \/ today \in schedule.days_of_week

\* the time lies between the start and the end of the window; a window
\* without end is open, a window without start has no range
InTimeRange(schedule, now) ==
    /\ schedule.start_time # NoTime
    /\ schedule.start_time <= now
    /\ schedule.end_time # NoTime => now <= schedule.end_time

\* C24: is_within_schedule is true exactly when no window is defined, or
\* some active window covers the current day of the week and the current time
\* of day lies within its start..end range.
C24_WithinSchedule ==
    within.called =>
        (within.result <=>
            \/ Len(within.schedules) = 0
            \/ \E i \in 1..Len(within.schedules) :
                  /\ within.schedules[i].is_active
                  /\ CoversDay(within.schedules[i], within.today)
                  /\ InTimeRange(within.schedules[i], within.now))

\* the check is off although windows are defined: the first one is inactive
\* and the second one covers another day
C24_Witness ==
    /\ within.called /\ ~within.result
    /\ Len(within.schedules) = 2
    /\ ~within.schedules[1].is_active
    /\ within.schedules[2].is_active
    /\ ~CoversDay(within.schedules[2], within.today)

(***************************************************************************)
(* The jobs of the ScheduleManager beside the supervisor.  The callback is  *)
(* the one given to set_monitor_callback; what it returns or raises stays   *)
(* in the job that awaited it.                                              *)
(***************************************************************************)
\* add_schedule registered a job that calls _start_monitoring
HasStartJob(list) ==
    \E i \in 1..Len(list) : list[i].schedule_type \in {"daily", "interval", "cron"}

\* add_schedule registered a job that calls _stop_monitoring
HasStopJob(list) ==
    \E i \in 1..Len(list) : list[i].schedule_type = "daily" /\ list[i].end_time # NoTime

\* the frame of the jobs: the supervisor and the run are not touched
JobFrame ==
    /\ UNCHANGED << schedules, _monitor_callback, within >>
    /\ ScheduleFrame

\* set_monitor_callback
SetMonitorCallback ==
    /\ _monitor_callback = NoCallback
    /\ _monitor_callback' = "callback"
    /\ UNCHANGED << schedules, _is_monitoring, last_job, within >>
    /\ ScheduleFrame

\* _start_monitoring, called by a start job
StartMonitoring ==
    /\ HasStartJob(schedules)
    /\ IF _monitor_callback # NoCallback /\ ~_is_monitoring
       THEN /\ _is_monitoring' = TRUE
            /\ last_job' = "start"
       ELSE UNCHANGED << _is_monitoring, last_job >>
    /\ JobFrame

\* a stop that ends the supervised run the way a failure does
StopMonitoring_AsFailure ==
    /\ HasStopJob(schedules)
    /\ _monitor_callback # NoCallback /\ _is_monitoring
    /\ pc = "wait_for_shutdown"
    /\ _is_monitoring' = FALSE
    /\ last_job' = "stop"
    /\ Raise
    /\ UNCHANGED << params, restartVars, _shutdown_event, _cleanup_callbacks, monitorVars,
                    cfgVars, waited, histVars, storeVars, pipeVars, cleanupVars, providers,
                    notifyVars, reloadVars, probe, pipeHistVars, searched, calls, botVars, stopVars,
                    unnotified, schedules,
                    _monitor_callback, within >>

\* _stop_monitoring, called by a stop job
StopMonitoring ==
    /\ HasStopJob(schedules)
    /\ IF _monitor_callback # NoCallback /\ _is_monitoring
       THEN /\ _is_monitoring' = FALSE
            /\ last_job' = "stop"
       ELSE UNCHANGED << _is_monitoring, last_job >>
    /\ JobFrame

InitSched ==
    /\ Init
    /\ max_retries = 3
    /\ notify_config = RunningConfig

NextSched ==
    \/ NextSup
    \/ AddSchedule(WorkWindow)
    \/ SetMonitorCallback
    \/ StartMonitoring
    \/ StopMonitoring

SpecSched == InitSched /\ [][NextSched]_vars

PatternPool ==
    { << <<"a">>, "contains", FALSE >>,
      << <<"A", "b">>, "contains", FALSE >>,
      << <<"b">>, "exact", TRUE >>,
      << << >>, "contains", FALSE >>,
      << << >>, "exact", FALSE >>,
      << << >>, "regex", FALSE >>,
      << <<"a">>, "regex", FALSE >>,
      << <<"(", "a">>, "regex", FALSE >> }

TextPool ==
    { << >>, <<"a">>, <<"b">>, <<"x", "A", "B">>, <<"Idot", "a">>, <<"(", "a">> }

\* the frame of the steps of the engine
SearchFrame ==
    UNCHANGED << params, restartVars, _shutdown_event, _cleanup_callbacks, monitorVars,
                 monitored_channels, taskVars, histVars, storeVars, pipeVars, cleanupVars,
                 providers, notifyVars, reloadVars, probe, pipeHistVars, schedVars, botVars, stopVars,
                 unnotified >>

\* engine.add_pattern(pattern, match_type, case_sensitive)
AddPattern(pattern, match_type, case_sensitive) ==
    /\ Len(patterns) < MaxPatterns
    /\ Len(calls) < MaxCalls
    /\ patterns' = add_pattern(patterns, pattern, match_type, case_sensitive)
    /\ calls' = Append(calls, [op |-> "add_pattern", pattern |-> pattern,
                               match_type |-> match_type,
                               case_sensitive |-> case_sensitive])
    /\ UNCHANGED searched
    /\ SearchFrame

\* one call of search and of has_match on the same text, kept with the list
Search(text) ==
    /\ searched' = [called |-> TRUE, text |-> text, patterns |-> patterns,
                    results |-> search(text, patterns),
                    has_match |-> has_match(text, patterns)]
    /\ UNCHANGED << patterns, calls >>
    /\ SearchFrame

NextSearch ==
    \/ \E args \in PatternPool : AddPattern(args[1], args[2], args[3])
    \/ \E text \in TextPool : Search(text)

SpecSearch == InitConstructed /\ [][NextSearch]_vars

\* the positions of the patterns that match the text
Matching(text, pats) == { i \in 1..Len(pats) : _match_pattern(text, pats[i]).matched }

\* the k-th lowest element of a set of numbers
Nth(set, k) == CHOOSE i \in set : Cardinality({ j \in set : j < i }) = k - 1

\* the results are those of the matching patterns, one each, in the order of
\* registration, and has_match tells whether there is one
ResultPerMatch ==
    LET hits == Matching(searched.text, searched.patterns)
    IN  /\ Len(searched.results) = Cardinality(hits)
        /\ \A k \in 1..Len(searched.results) :
              searched.results[k] = _match_pattern(searched.text, searched.patterns[Nth(hits, k)])
        /\ searched.has_match <=> searched.results # << >>

\* C25 as stated: search returns one result for every registered pattern
\* that matches the text, in registration order, none for another pattern,
\* and has_match is true exactly when search is non-empty; for every text.
C25_ResultPerMatch == searched.called => ResultPerMatch

\* C25: ... for every text that is not empty.
C25_ResultPerMatchOfText == (searched.called /\ searched.text # << >>) => ResultPerMatch

\* two patterns match and a search gave both, in the order of registration
C25_Witness ==
    /\ searched.called
    /\ Len(searched.patterns) = 2 /\ Len(searched.results) = 2
    /\ searched.patterns[1].pattern # searched.patterns[2].pattern
    /\ searched.results[1].pattern = searched.patterns[1].pattern
    /\ searched.results[2].pattern = searched.patterns[2].pattern
    /\ searched.has_match

\* C26: for a text that is not empty and a registered contains pattern
\* without case sensitivity, if the lowered text contains the lowered pattern
\* then search has a result for the pattern whose matched_text is the slice
\* of the text at its position and equals the pattern when both are lowered.
C26_ContainsKeepsOriginalSlice ==
    (searched.called /\ searched.text # << >>) =>
        \A i \in 1..Len(searched.patterns) :
            LET p == searched.patterns[i]
            IN  (/\ p.match_type = "contains" /\ ~p.case_sensitive
                 /\ Find(Lower(searched.text), Lower(p.pattern)) # -1)
                => \E k \in 1..Len(searched.results) :
                      LET r == searched.results[k]
                      IN  /\ r.pattern = p.pattern /\ r.match_type = "contains"
                          /\ r.matched_text = Slice(searched.text, r.position[1], r.position[2])
                          /\ Lower(r.matched_text) = Lower(p.pattern)

\* a regex pattern that does not compile
InvalidRegex(p) == p.match_type = "regex" /\ ~Compiles(p.pattern)

\* C27: a regex that does not compile is registered like any pattern, no
\* search reports a match for it, and the results are those of the engine
\* without it.
C27_InvalidRegexNeverMatches ==
    searched.called =>
        /\ \A k \in 1..Len(searched.results) :
              \A i \in 1..Len(searched.patterns) :
                  InvalidRegex(searched.patterns[i]) =>
                      ~(/\ searched.results[k].pattern = searched.patterns[i].pattern
                        /\ searched.results[k].match_type = "regex")
        /\ searched.results =
              search(searched.text,
                     SelectSeq(searched.patterns, LAMBDA p : ~InvalidRegex(p)))

\* a text that holds the characters of the invalid regex was searched: the
\* regex is registered, and only the other pattern is reported
C27_Witness ==
    /\ searched.called /\ searched.text = <<"(", "a">>
    /\ Len(searched.patterns) = 2
    /\ InvalidRegex(searched.patterns[1])
    /\ Len(searched.results) = 1
    /\ searched.results[1].pattern = searched.patterns[2].pattern

\* C28: search of the empty text returns the empty list whatever the
\* registered patterns are.
C28_EmptyTextNoResult ==
    (searched.called /\ searched.text = << >>) => searched.results = << >>

\* the empty text was searched with an empty contains or exact pattern and an
\* empty regex registered
C28_Witness ==
    /\ searched.called /\ searched.text = << >> /\ searched.results = << >>
    /\ Len(searched.patterns) = 2
    /\ searched.patterns[1].pattern = << >> /\ searched.patterns[1].match_type # "regex"
    /\ searched.patterns[2].pattern = << >> /\ searched.patterns[2].compiled_regex


(***************************************************************************)
(* The pattern list of a SearchEngine under add and clear calls.            *)
(***************************************************************************)
\* a call without the arguments that it does not take
Call(op, pattern) ==
    [op |-> op, pattern |-> pattern, match_type |-> "", case_sensitive |-> FALSE]

\* engine.add_keyword(keyword)
AddKeywordPattern(keyword) ==
    /\ Len(patterns) < MaxPatterns
    /\ Len(calls) < MaxCalls
    /\ patterns' = add_keyword(patterns, keyword)
    /\ calls' = Append(calls, Call("add_keyword", keyword))
    /\ UNCHANGED searched
    /\ SearchFrame

\* engine.add_regex(pattern)
AddRegex(pattern) ==
    /\ Len(patterns) < MaxPatterns
    /\ Len(calls) < MaxCalls
    /\ patterns' = add_regex(patterns, pattern)
    /\ calls' = Append(calls, Call("add_regex", pattern))
    /\ UNCHANGED searched
    /\ SearchFrame

\* engine.clear_patterns()
ClearPatterns ==
    /\ Len(calls) < MaxCalls
    /\ patterns' = clear_patterns(patterns)
    /\ calls' = Append(calls, Call("clear_patterns", << >>))
    /\ UNCHANGED searched
    /\ SearchFrame

CallPool == { << <<"a">>, "exact", TRUE >>, << <<"b">>, "contains", FALSE >> }

NextPatterns ==
    \/ \E args \in CallPool : AddPattern(args[1], args[2], args[3])
    \/ AddKeywordPattern(<<"b">>)
    \/ AddRegex(<<"(", "a">>)
    \/ ClearPatterns

SpecPatterns == InitConstructed /\ [][NextPatterns]_vars

\* the position of the last clear_patterns call, 0 if there is none
LastClear(log) ==
    IF \E i \in 1..Len(log) : log[i].op = "clear_patterns"
    THEN CHOOSE i \in 1..Len(log) :
            /\ log[i].op = "clear_patterns"
            /\ \A j \in (i + 1)..Len(log) : log[j].op # "clear_patterns"
    ELSE 0

\* the pattern that an add call stands for
PatternOf(call) ==
    SearchPattern(call.pattern,
                  CASE call.op = "add_keyword" -> "contains"
                    [] call.op = "add_regex" -> "regex"
                    [] OTHER -> call.match_type,
                  call.case_sensitive)

\* C32: the pattern list holds the patterns of the add calls made since the
\* last clear_patterns call, one per call and in the order of the calls.
C32_AddedSinceLastClear ==
    /\ Len(patterns) = Len(calls) - LastClear(calls)
    /\ \A k \in 1..Len(patterns) : patterns[k] = PatternOf(calls[LastClear(calls) + k])

\* a list was filled, cleared and filled again with the same keyword twice,
\* once by add_pattern and once by add_keyword
C32_Witness ==
    /\ Len(calls) = 4
    /\ calls[1].op # "clear_patterns"
    /\ calls[2].op = "clear_patterns"
    /\ calls[3].op = "add_pattern" /\ calls[4].op = "add_keyword"
    /\ Len(patterns) = 2
    /\ patterns[1] = patterns[2]

====
